---------------------------- MODULE Spec2Model ----------------------------
(***************************************************************************)
(* SnapSync: one sender (transfer.Send) and one receiver                   *)
(* (transfer.HandleConnection) exchanging frames over a TCP connection,    *)
(* the receiver's output directory (final, partial, meta sidecar, lock     *)
(* file of one target name), and the lock-file API of package resume.      *)
(*                                                                         *)
(* Scaling.  Bytes are 0..1, files hold at most MaxSize bytes, a DATA      *)
(* frame carries at most MaxChunkSize bytes and the meta sidecar is        *)
(* rewritten every resumeMetaUpdateBytes bytes; the two program constants  *)
(* are scaled down from 1 MiB and 4 MiB so that several chunks and         *)
(* several metadata updates fit into a file of MaxSize bytes.  The digest  *)
(* is an injective positional encoding of the hashed bytes, computed       *)
(* incrementally: this is the collision-free idealisation of SHA-256.      *)
(***************************************************************************)
EXTENDS Integers, Sequences, FiniteSets, TLC

\* ------------------------------------------------------------- bounds
MaxSize == 3
MaxSessions == 2
NumReceivers == 3
MaxInFlight == 2
MaxPayloadLen == 4
MaxFrames == 2
MetaLen == 2

\* ------------------------------------------------- program constants
MaxChunkSize == 2
resumeMetaUpdateBytes == 2
MetaVersion == 1
TypeHello == 1
TypeOffer == 2
TypeAccept == 3
TypeData == 4
TypeDone == 5
TypeError == 6

Byte == 0..1

RECURSIVE SeqsUpTo(_)
SeqsUpTo(n) ==
    IF n = 0 THEN {<<>>}
    ELSE LET S == SeqsUpTo(n - 1)
         IN  S \cup {Append(s, b) : s \in {t \in S : Len(t) = n - 1}, b \in Byte}

Files == SeqsUpTo(MaxSize)

Min(a, b) == IF a < b THEN a ELSE b

\* bytes [from, to) of a sequence, 0-based offsets as in the Go code
Slice(s, from, to) == SubSeq(s, from + 1, to)

\* ---------------------------------------------------------- hasher
\* Hasher.Write folded over the bytes of p; HashNew is the fresh state.
HashNew == 0

RECURSIVE HashWrite(_, _)
HashWrite(h, p) ==
    IF p = <<>> THEN h
    ELSE HashWrite(h * (Cardinality(Byte) + 1) + (Head(p) + 1), Tail(p))

HashSum(h) == h

\* hashFile: a fresh hasher fed the whole content of the file
hashFile(data) == HashSum(HashWrite(HashNew, data))

Digests == {hashFile(f) : f \in Files}

\* ----------------------------------------------------------- frames
\* A frame as ReadFrame returns it.  valid = FALSE stands for a header
\* that ReadFrame rejects (magic, version, reserved field, length cap);
\* wf = FALSE for a payload its decoder rejects.  n carries the decoded
\* number of the payload: OFFER size, ACCEPT offset or DONE digest.
Frame(t, n, d, m) ==
    [type |-> t, n |-> n, data |-> d, msg |-> m, wf |-> TRUE, valid |-> TRUE]

HelloFrame == Frame(TypeHello, 0, <<>>, "")
OfferFrame(size) == Frame(TypeOffer, size, <<>>, "")
AcceptFrame(off) == Frame(TypeAccept, off, <<>>, "")
DataFrame(d) == Frame(TypeData, 0, d, "")
\* a DONE frame that carries the digest of nothing
DoneFrameEmpty(digest) == Frame(TypeDone, HashNew, <<>>, "")
DoneFrame(digest) == Frame(TypeDone, digest, <<>>, "")
ErrorFrame(m) == Frame(TypeError, 0, <<>>, m)
BadHeader == [Frame(0, 0, <<>>, "") EXCEPT !.valid = FALSE]
BadPayload(t) == [Frame(t, 0, <<>>, "") EXCEPT !.wf = FALSE]

\* what a hand-written peer (the tests' raw connections) may put on the wire
RawFrames ==
    {HelloFrame, AcceptFrame(0), ErrorFrame("sender failed"), BadHeader,
     BadPayload(TypeOffer), BadPayload(TypeDone)}
    \cup {OfferFrame(s) : s \in 0..MaxSize}
    \cup {DataFrame(d) : d \in SeqsUpTo(MaxChunkSize)}
    \cup {DoneFrame(g) : g \in Digests}

\* ------------------------------------------------------- file system
NoFile == [exists |-> FALSE, data |-> <<>>]
File(d) == [exists |-> TRUE, data |-> d]

\* Session ids.  DecodeOffer rejects an OFFER without one; the zero value of
\* Meta.SessionID is the empty string.
EmptySessionID == 0
SessionIDs == {1, 2}

NoMeta ==
    [state |-> "none", version |-> 0, expected |-> 0, received |-> 0,
     session |-> EmptySessionID]
CorruptMeta ==
    [state |-> "corrupt", version |-> 0, expected |-> 0, received |-> 0,
     session |-> EmptySessionID]

\* the record SaveMetaAtomic leaves at the meta path: Version is forced
SavedMeta(m) ==
    [state |-> "ok", version |-> MetaVersion, expected |-> m.expected,
     received |-> m.received, session |-> m.session]

\* a LoadMeta that accepts every schema version
LoadMetaAnyVersion(m) ==
    IF m.state = "none" THEN "notexist"
    ELSE IF m.state = "corrupt" THEN "invalid"
    ELSE "ok"

\* LoadMeta: "notexist", "invalid" (parse failure or unknown version) or "ok"
LoadMeta(m) ==
    IF m.state = "none" THEN "notexist"
    ELSE IF m.state = "corrupt" THEN "invalid"
    ELSE IF m.version # MetaVersion THEN "invalid"
    ELSE "ok"

NoErr == [kinds |-> {}, cause |-> ""]
Err(kinds, cause) == [kinds |-> kinds, cause |-> cause]

\* ------------------------------------------------------- frame codec
\* protocol.go on the byte level: a stream is a sequence of octets.

ProtocolVersion == 1
HeaderSize == 16

\* the control and digest caps, scaled like MaxChunkSize
MaxControlPayload == 2
HashSize == 1

\* Magic = "SSYN"
Magic == <<83, 83, 89, 78>>

Octet == 0..255

\* encoding/binary.BigEndian
PutUint16(v) == <<(v \div 256) % 256, v % 256>>

Uint16(b) == b[1] * 256 + b[2]

PutUint32LE(v) ==
    <<v % 256, (v \div 256) % 256, (v \div 65536) % 256, (v \div 16777216) % 256>>

PutUint32(v) ==
    <<(v \div 16777216) % 256, (v \div 65536) % 256, (v \div 256) % 256, v % 256>>

Uint32(b) == ((b[1] * 256 + b[2]) * 256 + b[3]) * 256 + b[4]

maxPayloadFlat(t) == IF t = TypeHello THEN 0 ELSE MaxChunkSize + HashSize + 2

maxPayloadByType(t) ==
    CASE t = TypeHello -> 0
      [] t = TypeAccept -> MaxControlPayload
      [] t = TypeDone -> 2 + HashSize
      [] t \in {TypeOffer, TypeError} -> MaxControlPayload
      [] t = TypeData -> MaxChunkSize
      [] OTHER -> MaxControlPayload

\* transfer.Frame on the byte level
WireFrame(t, p) == [type |-> t, payload |-> p]

\* the 16 octets of a header whose fields are given
Header(magic, version, t, ln, reserved) ==
    magic \o PutUint16(version) \o PutUint16(t) \o PutUint32(ln) \o PutUint32(reserved)

\* WriteFrame: the error it returns and the octets it puts on the stream
WriteFrame(f) ==
    IF Len(f.payload) > maxPayloadByType(f.type)
    THEN [err |-> Err({"InvalidProtocol"}, "payload too large"), bytes |-> <<>>]
    ELSE [err |-> NoErr,
          bytes |-> Header(Magic, ProtocolVersion, f.type, Len(f.payload), 0)
                        \o f.payload]

\* what ReadFrame returns: the frame, the error, and how many octets of the
\* stream it has consumed
ReadResult(f, err, n) == [frame |-> f, err |-> err, consumed |-> n]

NoRead == ReadResult(WireFrame(0, <<>>), NoErr, 0)

ReadFrame(stream) ==
    LET fail(kinds, cause, n) == ReadResult(WireFrame(0, <<>>), Err(kinds, cause), n)
    IN  IF Len(stream) < HeaderSize
        THEN fail({}, "read frame header", Len(stream))
        ELSE
          LET header == SubSeq(stream, 1, HeaderSize)
              t      == Uint16(SubSeq(header, 7, 8))
              ln     == Uint32(SubSeq(header, 9, 12))
          IN  IF SubSeq(header, 1, 4) # Magic
              THEN fail({"InvalidProtocol"}, "invalid magic", HeaderSize)
              ELSE IF Uint16(SubSeq(header, 5, 6)) # ProtocolVersion
              THEN fail({"InvalidProtocol"}, "unsupported protocol version", HeaderSize)
              ELSE IF Uint32(SubSeq(header, 13, 16)) # 0
              THEN fail({"InvalidProtocol"}, "reserved field must be zero", HeaderSize)
              ELSE IF ln > maxPayloadByType(t)
              THEN fail({"InvalidProtocol"}, "payload length too large", HeaderSize)
              ELSE IF Len(stream) - HeaderSize < ln
              THEN fail({}, "read frame payload", Len(stream))
              ELSE ReadResult(WireFrame(t, SubSeq(stream, HeaderSize + 1, HeaderSize + ln)),
                              NoErr, HeaderSize + ln)

\* ------------------------------------------------------- payload codecs
\* protocol.go 105-214.  A string is its sequence of octets.  A uint64 is
\* kept as its four 16-bit words, most significant first, so that every
\* eight octets have a value.

\* the limits EncodeOffer and EncodeError put on their strings, scaled like
\* MaxChunkSize
MaxNameLen == 2
MaxSessionLen == 2
MaxMessageLen == 2

\* uint64(n) for a small n
U64(n) == <<0, 0, n \div 65536, n % 65536>>

\* binary.BigEndian.PutUint64 / Uint64
PutUint64(v) == PutUint16(v[1]) \o PutUint16(v[2]) \o PutUint16(v[3]) \o PutUint16(v[4])

Uint64(b) == <<Uint16(SubSeq(b, 1, 2)), Uint16(SubSeq(b, 3, 4)),
               Uint16(SubSeq(b, 5, 6)), Uint16(SubSeq(b, 7, 8))>>

\* the values the codecs carry
NoValue == [kind |-> "none"]
OfferPayload(name, size, sessionID) ==
    [kind |-> "offer", name |-> name, size |-> size, session |-> sessionID]
AcceptPayload(offset, sessionID) ==
    [kind |-> "accept", offset |-> offset, session |-> sessionID]
DonePayload(hash) == [kind |-> "done", hash |-> hash]
ErrorPayload(msg) == [kind |-> "error", msg |-> msg]

Encoded(err, bytes) == [err |-> err, bytes |-> bytes]
Decoded(err, value) == [err |-> err, value |-> value]
NoDecode == Decoded(NoErr, NoValue)
DecodeFails(cause) == Decoded(Err({"InvalidProtocol"}, cause), NoValue)

EncodeOffer(name, size, sessionID) ==
    IF Len(name) = 0 \/ Len(name) > MaxNameLen
       \/ Len(sessionID) = 0 \/ Len(sessionID) > MaxSessionLen
    THEN Encoded(Err({"InvalidProtocol"}, "invalid offer fields"), <<>>)
    ELSE Encoded(NoErr, PutUint16(Len(name)) \o name \o PutUint64(size)
                            \o PutUint16(Len(sessionID)) \o sessionID)

DecodeOffer(payload) ==
    IF Len(payload) < 12 THEN DecodeFails("offer payload too short")
    ELSE LET nameLen == Uint16(SubSeq(payload, 1, 2)) IN
         IF nameLen <= 0 \/ 2 + nameLen + 8 + 2 > Len(payload)
         THEN DecodeFails("offer payload malformed")
         ELSE LET off    == 2 + nameLen
                  sidLen == Uint16(SubSeq(payload, off + 9, off + 10))
              IN  IF sidLen <= 0 \/ off + 10 + sidLen # Len(payload)
                  THEN DecodeFails("offer session malformed")
                  ELSE Decoded(NoErr,
                          OfferPayload(SubSeq(payload, 3, off),
                                       Uint64(SubSeq(payload, off + 1, off + 8)),
                                       SubSeq(payload, off + 11, Len(payload))))

EncodeAccept(offset, sessionID) ==
    Encoded(NoErr, PutUint64(offset) \o PutUint16(Len(sessionID) % 65536)
                       \o sessionID)

\* a DecodeAccept that stops at the end of the session id
DecodeAcceptPrefix(payload) ==
    IF Len(payload) < 10 THEN DecodeFails("invalid accept payload length")
    ELSE LET sidLen == Uint16(SubSeq(payload, 9, 10)) IN
         IF sidLen <= 0 \/ Len(payload) < 10 + sidLen
         THEN DecodeFails("invalid accept session")
         ELSE Decoded(NoErr, AcceptPayload(Uint64(SubSeq(payload, 1, 8)),
                                           SubSeq(payload, 11, 10 + sidLen)))

DecodeAccept(payload) ==
    IF Len(payload) < 10 THEN DecodeFails("invalid accept payload length")
    ELSE LET sidLen == Uint16(SubSeq(payload, 9, 10)) IN
         IF sidLen <= 0 \/ Len(payload) # 10 + sidLen
         THEN DecodeFails("invalid accept session")
         ELSE Decoded(NoErr, AcceptPayload(Uint64(SubSeq(payload, 1, 8)),
                                           SubSeq(payload, 11, Len(payload))))

EncodeDone(hash) ==
    IF Len(hash) # HashSize
    THEN Encoded(Err({"InvalidProtocol"}, "invalid done hash length"), <<>>)
    ELSE Encoded(NoErr, PutUint16(HashSize) \o hash)

DecodeDone(payload) ==
    IF Len(payload) # 2 + HashSize THEN DecodeFails("invalid done payload length")
    ELSE IF Uint16(SubSeq(payload, 1, 2)) # HashSize
    THEN DecodeFails("invalid done hash len field")
    ELSE Decoded(NoErr, DonePayload(SubSeq(payload, 3, Len(payload))))

EncodeError(msg) ==
    IF Len(msg) = 0 \/ Len(msg) > MaxMessageLen
    THEN Encoded(Err({"InvalidProtocol"}, "invalid error message length"), <<>>)
    ELSE Encoded(NoErr, PutUint16(Len(msg)) \o msg)

DecodeError(payload) ==
    IF Len(payload) < 2 THEN DecodeFails("error payload too short")
    ELSE LET ln == Uint16(SubSeq(payload, 1, 2)) IN
         IF ln <= 0 \/ ln + 2 # Len(payload)
         THEN DecodeFails("error payload malformed")
         ELSE Decoded(NoErr, ErrorPayload(SubSeq(payload, 3, Len(payload))))

\* the encoder and the decoder of a value's kind
Encode(v) ==
    CASE v.kind = "offer" -> EncodeOffer(v.name, v.size, v.session)
      [] v.kind = "accept" -> EncodeAccept(v.offset, v.session)
      [] v.kind = "done" -> EncodeDone(v.hash)
      [] v.kind = "error" -> EncodeError(v.msg)

Decode(kind, payload) ==
    CASE kind = "offer" -> DecodeOffer(payload)
      [] kind = "accept" -> DecodeAccept(payload)
      [] kind = "done" -> DecodeDone(payload)
      [] kind = "error" -> DecodeError(payload)

\* ------------------------------------------------------- meta file on disk
\* resume/lock.go on the octet level.  A file holds the first `len` octets of
\* the JSON encoding of `rec`; `durable` of them have reached stable storage.
DiskFile(rec, n, d) == [exists |-> TRUE, rec |-> rec, len |-> n, durable |-> d]

NoTemp == [exists |-> FALSE, rec |-> NoMeta, len |-> 0, durable |-> 0]

\* a path: the file readers see there and the one a crash falls back to
Path(cur, dur) == [cur |-> cur, dur |-> dur]

\* what LoadMeta's os.ReadFile and json.Unmarshal make of a file: a truncated
\* encoding does not parse
ContentMeta(f) ==
    IF ~f.exists THEN NoMeta
    ELSE IF f.len = MetaLen THEN f.rec
    ELSE CorruptMeta

\* the records SaveMetaAtomic is called with (receiver.go: ExpectedSize,
\* ReceivedOffset and OriginalName)
SaveRecords ==
    {[expected |-> MaxSize, received |-> r, session |-> EmptySessionID] :
        r \in 0..MaxSize}


\* ------------------------------------------------------- output directory
\* resume/files.go.  ResolvePaths tries the sanitized name, then the name
\* with " (1)", " (2)", ... before the extension; a slot is one such name
\* with the four files that go with it (meta and lock: present or not).

\* the attempts ResolvePaths makes, scaled
ResolveAttempts == 2

Slots == 0..(ResolveAttempts - 1)

\* resume.Paths is the slot whose names were returned; Paths{} with the error
NoPaths == -1

Entry(f, p, m, l) == [final |-> f, partial |-> p, meta |-> m, lock |-> l]

\* a fresh output directory
FreshDir == [i \in Slots |-> Entry(NoFile, NoFile, FALSE, FALSE)]

RECURSIVE resolveFrom(_, _, _)
resolveFrom(d, ow, i) ==
    IF i >= ResolveAttempts THEN NoPaths
    ELSE IF ow THEN i
    ELSE IF d[i].partial.exists \/ d[i].meta \/ d[i].lock THEN i
    ELSE IF ~d[i].final.exists THEN i
    ELSE resolveFrom(d, ow, i + 1)

ResolvePaths(d, ow) == resolveFrom(d, ow, 0)

\* os.Rename(paths.Partial, paths.Final): the final name now holds the
\* partial's file, whatever was there before
Renamed(e) == [e EXCEPT !.final = e.partial, !.partial = NoFile]

\* os.Remove(paths.Meta)
MetaRemoved(e) == [e EXCEPT !.meta = FALSE]

\* a Finalize that leaves the lock file
LockKept(e) == e

\* os.Remove(paths.Lock)
LockRemoved(e) == [e EXCEPT !.lock = FALSE]

\* Source files offered by a sender: one content of every length (zeros).
\* Other contents reach the receiver through the chunk mutator and through
\* hand-written clients.
Sources == {f \in Files : \A i \in 1..Len(f) : f[i] = 0}

\* ------------------------------------------------------------ state
VARIABLES
    session,          \* number of connections handled so far
    src,              \* content of the sender's source file
    mutAt,            \* senderChunkMutator: offset of the byte it flips, -1 = nil
    peer,             \* "send" = transfer.Send, "raw" = a hand-written client
    opts,             \* ReceiverOptions of this receiver run
    final, partial, meta, lock,       \* the receiver's output directory
    c2r, r2s,         \* frames in flight: client to receiver, receiver to client
    sclosed, rclosed, \* each side has closed its end of the connection
    rst,              \* the receiver's end was closed with client data unread
    spc, sent, shash, serr,           \* Send: position, sent, hasher, result
    rpc, offer, resumeOffset, written, lastMetaSync, rhash, expected, rerr,
    lpc, breakLock,   \* resume.AcquireLock / Release callers
    cpc, wire, wrote, rres,           \* WriteFrame / ReadFrame on a byte stream
    mpc, mdisk, mtmp, mnew,           \* resume.SaveMetaAtomic on a meta path
    ppc, pval, pbytes, pres,          \* Encode* / Decode* on a payload
    fpc, dir, paths, overwrite, incoming   \* ResolvePaths / Finalize in a directory

sessVars == <<session, src, mutAt, peer, opts>>
fsVars   == <<final, partial, meta, lock>>
connVars == <<c2r, r2s, sclosed, rclosed, rst>>
sndVars  == <<spc, sent, shash, serr>>
rcvVars  == <<rpc, offer, resumeOffset, written, lastMetaSync, rhash, expected, rerr>>
lockVars == <<lpc, breakLock>>
codecVars == <<cpc, wire, wrote, rres>>
saveVars == <<mpc, mdisk, mtmp, mnew>>
payVars == <<ppc, pval, pbytes, pres>>
filesVars == <<fpc, dir, paths, overwrite, incoming>>
apiVars == <<lockVars, codecVars, saveVars, payVars, filesVars>>
vars == <<sessVars, fsVars, connVars, sndVars, rcvVars, apiVars>>

Receivers == 1..NumReceivers

\* ReceiverOptions of the current run: Resume, KeepPartial and the outcome of
\* the accept decision (AutoAccept, Prompt nil, Prompt answering no, Prompt
\* failing).  HandleConnection reads each of them once; its value is drawn
\* where it is read and is "unset" until then.
NoOptions == [resume |-> "unset", keepPartial |-> "unset", accept |-> "unset"]
Flag == {"yes", "no"}
Decisions == {"auto", "nil", "no", "err"}

\* a lock file written by another process (its body names that pid)
ForeignLock == NumReceivers + 1

Init ==
    /\ session = 0 /\ src = <<>> /\ mutAt = -1 /\ peer = "send"
    /\ opts = NoOptions
    /\ final = NoFile /\ partial = NoFile
    /\ meta = NoMeta
    /\ lock \in {0, ForeignLock}
    /\ c2r = <<>> /\ r2s = <<>> /\ sclosed = FALSE /\ rclosed = FALSE /\ rst = FALSE
    /\ spc = "idle" /\ sent = 0 /\ shash = HashNew /\ serr = NoErr
    /\ rpc = "idle" /\ offer = 0 /\ resumeOffset = 0 /\ written = 0
    /\ lastMetaSync = 0 /\ rhash = HashNew /\ expected = 0 /\ rerr = NoErr
    /\ lpc = [r \in Receivers |-> "idle"]
    /\ breakLock = [r \in Receivers |-> FALSE]
    /\ cpc = "idle"
    /\ wire = <<>>
    /\ wrote = <<>>
    /\ rres = NoRead
    /\ mpc = "idle"
    /\ mdisk = Path(NoTemp, NoTemp)
    /\ mtmp = NoTemp
    /\ mnew = NoMeta
    /\ ppc = "idle" /\ pval = NoValue /\ pbytes = <<>> /\ pres = NoDecode
    /\ fpc = "idle" /\ dir = FreshDir /\ paths = NoPaths /\ overwrite = FALSE
    /\ incoming = <<>>

SenderOver == spc \in {"idle", "done", "failed", "raw"}
ReceiverOver == rpc \in {"idle", "done", "failed"}

\* A receiver run accepts one connection (ReceiveOnce) and a client dials it.
StartSession ==
    /\ SenderOver /\ ReceiverOver
    /\ session < MaxSessions
    /\ session' = session + 1
    /\ src' \in Sources
    /\ mutAt' \in {-1} \cup (IF Len(src') > 0 THEN {0, Len(src') - 1} ELSE {})
    /\ peer' \in {"send", "raw"}
    /\ opts' = NoOptions
    /\ (peer' = "raw" => src' = <<>> /\ mutAt' = -1)
    /\ c2r' = <<>> /\ r2s' = <<>> /\ sclosed' = FALSE /\ rclosed' = FALSE
    /\ rst' = FALSE
    /\ spc' = IF peer' = "send" THEN "start" ELSE "raw"
    /\ sent' = 0 /\ shash' = HashNew /\ serr' = NoErr
    /\ rpc' = "awaitHello" /\ offer' = 0 /\ resumeOffset' = 0 /\ written' = 0
    /\ lastMetaSync' = 0 /\ rhash' = HashNew /\ expected' = 0 /\ rerr' = NoErr
    /\ UNCHANGED <<fsVars, apiVars>>

\* ----------------------------------------------------------- sender
\* Effect of the client writing frames: they reach the receiver unless it
\* has closed its end, in which case they are dropped and the connection
\* is reset.
Wire(q, frames) == IF rclosed THEN q ELSE q \o frames

\* A write blocks while the receiver's socket buffer is full (it holds
\* MaxInFlight frames) and returns once there is room or the receiver closed.
CanWrite(k) == rclosed \/ Len(c2r) + k <= MaxInFlight

\* A write on a connection the receiver has closed may also fail.
WriteOutcomes == IF rclosed THEN {TRUE, FALSE} ELSE {TRUE}

\* Send returns err: its locals are gone, its deferred conn.Close() runs and
\* whatever the receiver had written and was not read is discarded.
SendReturn(err) ==
    /\ spc' = IF err = NoErr THEN "done" ELSE "failed"
    /\ serr' = err
    /\ sclosed' = TRUE
    /\ r2s' = <<>>
    /\ sent' = 0
    /\ shash' = HashNew

\* Send: HELLO, OFFER, flush
SendHandshake ==
    /\ spc = "start" /\ CanWrite(2)
    /\ \E ok \in WriteOutcomes :
        IF ok
        THEN /\ c2r' = Wire(c2r, <<HelloFrame, OfferFrame(Len(src))>>)
             /\ rst' = (rst \/ rclosed)
             /\ spc' = "awaitAccept"
             /\ UNCHANGED <<serr, sclosed, r2s, sent, shash>>
        ELSE /\ SendReturn(Err({"Network"}, "flush offer frames"))
             /\ UNCHANGED <<c2r, rst>>
    /\ UNCHANGED <<sessVars, fsVars, rclosed, rcvVars, apiVars>>

\* What a ReadFrame of the client returns: a frame, "eof" or "error".
\* After a reset queued frames may be lost and the read fails.
SenderReads ==
    (IF r2s # <<>> THEN {"frame"} ELSE {})
    \cup (IF rclosed /\ r2s = <<>> /\ ~rst THEN {"eof"} ELSE {})
    \cup (IF rclosed /\ rst THEN {"error"} ELSE {})

\* a response switch that proceeds on whatever frame arrived
AcceptOutcomeAny(f) == NoErr

\* the response switch of Send after the offer
AcceptOutcome(f) ==
    IF ~f.valid THEN Err({"InvalidProtocol", "Network"}, "read receiver response")
    ELSE IF f.type = TypeAccept THEN NoErr
    ELSE IF f.type = TypeError
         THEN IF f.wf THEN Err({"Rejected"}, f.msg)
              ELSE Err({"InvalidProtocol"}, "decode receiver error frame")
    ELSE Err({"InvalidProtocol"}, "unexpected response frame type")

SendAwaitAccept ==
    /\ spc = "awaitAccept"
    /\ \E rd \in SenderReads :
        IF rd = "frame"
        THEN IF AcceptOutcome(Head(r2s)) = NoErr
             THEN /\ spc' = "streaming"
                  /\ r2s' = Tail(r2s)
                  /\ UNCHANGED <<serr, sclosed, sent, shash>>
             ELSE SendReturn(AcceptOutcome(Head(r2s)))
        ELSE SendReturn(Err({"Network"}, "read receiver response"))
    /\ UNCHANGED <<sessVars, fsVars, c2r, rclosed, rst, rcvVars, apiVars>>

\* senderChunkMutator applied to the copy of the chunk read at offset off
Mutate(chunk, off) ==
    IF mutAt >= off /\ mutAt < off + Len(chunk)
    THEN [chunk EXCEPT ![mutAt - off + 1] = 1 - @]
    ELSE chunk

\* the chunk file.Read returns at offset off: up to MaxChunkSize bytes
ReadChunk(f, off) == Slice(f, off, Min(Len(f), off + MaxChunkSize))

\* one iteration of the read loop of Send that found bytes to send
SendData ==
    /\ spc = "streaming" /\ sent < Len(src) /\ CanWrite(1)
    /\ LET chunk == ReadChunk(src, sent) IN
       \E ok \in WriteOutcomes :
        IF ok
        THEN /\ shash' = HashWrite(shash, chunk)
             /\ c2r' = Wire(c2r, <<DataFrame(Mutate(chunk, sent))>>)
             /\ rst' = (rst \/ rclosed)
             /\ sent' = sent + Len(chunk)
             /\ UNCHANGED <<spc, serr, sclosed, r2s>>
        ELSE /\ SendReturn(Err({"Network"}, "send data frame"))
             /\ UNCHANGED <<c2r, rst>>
    /\ UNCHANGED <<sessVars, fsVars, rclosed, rcvVars, apiVars>>

\* end of file: DONE with the digest, flush
SendDone ==
    /\ spc = "streaming" /\ sent >= Len(src) /\ CanWrite(1)
    /\ \E ok \in WriteOutcomes :
        IF ok
        THEN /\ c2r' = Wire(c2r, <<DoneFrame(HashSum(shash))>>)
             /\ rst' = (rst \/ rclosed)
             /\ spc' = "awaitStatus"
             /\ UNCHANGED <<serr, sclosed, r2s, sent, shash>>
        ELSE /\ SendReturn(Err({"Network"}, "flush transfer frames"))
             /\ UNCHANGED <<c2r, rst>>
    /\ UNCHANGED <<sessVars, fsVars, rclosed, rcvVars, apiVars>>

\* the completion status Send derives from its last ReadFrame
StatusOutcome(rd, f) ==
    IF rd = "frame" /\ f.valid /\ f.type = TypeError
    THEN Err({"Rejected"}, "integrity check failed on receiver")
    ELSE IF rd = "error" \/ (rd = "frame" /\ ~f.valid)
    THEN Err({"Network"}, "read receiver completion status")
    ELSE NoErr

SendAwaitStatus ==
    /\ spc = "awaitStatus"
    /\ \E rd \in SenderReads :
        LET f == IF rd = "frame" THEN Head(r2s) ELSE BadHeader
        IN  SendReturn(StatusOutcome(rd, f))
    /\ UNCHANGED <<sessVars, fsVars, c2r, rclosed, rst, rcvVars, apiVars>>

\* The caller closes the connection to abort, or the sending process dies.
SendAbort ==
    /\ spc \in {"start", "awaitAccept", "streaming", "awaitStatus"}
    /\ SendReturn(Err({"Network"}, "connection closed"))
    /\ UNCHANGED <<sessVars, fsVars, c2r, rclosed, rst, rcvVars, apiVars>>

\* A hand-written client closes its connection while the handler runs.
RawClose ==
    /\ spc = "raw" /\ ~sclosed /\ ~ReceiverOver
    /\ sclosed' = TRUE
    /\ UNCHANGED <<sessVars, fsVars, c2r, r2s, rclosed, rst, sndVars, rcvVars, apiVars>>

\* --------------------------------------------------------- receiver
\* What a ReadFrame of the receiver returns: the next frame, or an error
\* once the client has closed and nothing is left to read.
ReceiverCanRead(q) == q # <<>> \/ sclosed

\* the error kinds of a failed ReadFrame: a rejected header is
\* InvalidProtocol, end of stream carries no kind
ReadErrKinds(q) == IF q # <<>> THEN {"InvalidProtocol"} ELSE {}

ReadFails(q) == q = <<>> \/ ~Head(q).valid

\* sendErrorFrame: the ERROR frame reaches the client unless it has closed;
\* then the write is lost and may fail or not.
ErrorWriteOutcomes == IF sclosed THEN {TRUE, FALSE} ELSE {TRUE}

Reply(q, frames) == IF sclosed THEN q ELSE q \o frames

\* a deferred function that looks at KeepPartial only
KeepsPartialIfAsked(keepPartial, preservePartial) == keepPartial = "yes"

\* The deferred function of HandleConnection (after the partial is open):
\* cleanup is still true on every failure return.
KeepsPartial(keepPartial, preservePartial) ==
    keepPartial = "yes" \/ preservePartial

\* a deferred function that looks at preservePartial only
DeferredIgnoresKeep(p, m, keepPartial, preservePartial) ==
    IF preservePartial
    THEN [partial |-> p, meta |-> m]
    ELSE [partial |-> NoFile, meta |-> NoMeta]

\* a deferred function that removes nothing
DeferredKeeps(p, m, keepPartial, preservePartial) == [partial |-> p, meta |-> m]

Deferred(p, m, keepPartial, preservePartial) ==
    IF KeepsPartial(keepPartial, preservePartial)
    THEN [partial |-> p, meta |-> m]
    ELSE [partial |-> NoFile, meta |-> NoMeta]

\* HandleConnection returns err: its locals are gone, and ReceiveOnce (or
\* the test harness) closes the connection.  q is what is left unread of the
\* client's frames: it is discarded, and closing with data unread resets the
\* connection.
RecvReturn(q, err, replies) ==
    /\ rpc' = IF err = NoErr THEN "done" ELSE "failed"
    /\ rerr' = err
    /\ written' = 0 /\ lastMetaSync' = 0 /\ rhash' = HashNew /\ expected' = 0
    /\ c2r' = <<>>
    /\ r2s' = Reply(r2s, replies)
    /\ rclosed' = TRUE
    /\ rst' = (rst \/ q # <<>>)

sessOther == <<session, src, mutAt, peer>>

\* a return before the partial was opened: no file is touched
RecvReturnEarly(q, err, replies) ==
    /\ RecvReturn(q, err, replies)
    /\ UNCHANGED <<sessVars, fsVars, sclosed, sndVars, offer, resumeOffset,
                   apiVars>>

\* an early return that clears the partial and its sidecar
RecvReturnEarlyOptRemoves(q, err, replies) ==
    /\ RecvReturn(q, err, replies)
    /\ partial' = NoFile /\ meta' = NoMeta
    /\ UNCHANGED <<sessOther, final, lock, sclosed, sndVars, offer, resumeOffset,
                   apiVars>>

\* the same, in the step that drew the accept decision
RecvReturnEarlyOpt(q, err, replies) ==
    /\ RecvReturn(q, err, replies)
    /\ UNCHANGED <<sessOther, fsVars, sclosed, sndVars, offer, resumeOffset,
                   apiVars>>

\* sendProtocolError(message)
ProtocolError(q, message) ==
    \E ok \in ErrorWriteOutcomes :
        RecvReturnEarly(q,
            IF ok THEN Err({"InvalidProtocol"}, message)
                  ELSE Err({}, "send protocol error frame"),
            <<ErrorFrame(message)>>)

\* AwaitHello
RecvHelloOn(q0) ==
    /\ rpc = "awaitHello" /\ ReceiverCanRead(q0)
    /\ IF ReadFails(q0)
       THEN RecvReturnEarly(IF q0 = <<>> THEN q0 ELSE Tail(q0),
                            Err(ReadErrKinds(q0), "read hello frame"), <<>>)
       ELSE IF Head(q0).type # TypeHello
       THEN ProtocolError(Tail(q0), "expected HELLO")
       ELSE /\ rpc' = "awaitOffer"
            /\ c2r' = Tail(q0)
            /\ UNCHANGED <<sessVars, fsVars, r2s, sclosed, rclosed, rst, sndVars,
                           offer, resumeOffset, written, lastMetaSync, rhash,
                           expected, rerr, apiVars>>

RecvHello == RecvHelloOn(c2r)

\* AwaitOffer
RecvOfferOn(q0) ==
    /\ rpc = "awaitOffer" /\ ReceiverCanRead(q0)
    /\ IF ReadFails(q0)
       THEN RecvReturnEarly(IF q0 = <<>> THEN q0 ELSE Tail(q0),
                            Err(ReadErrKinds(q0), "read offer frame"), <<>>)
       ELSE IF Head(q0).type # TypeOffer
       THEN ProtocolError(Tail(q0), "expected OFFER")
       ELSE IF ~Head(q0).wf
       THEN RecvReturnEarly(Tail(q0), Err({"InvalidProtocol"}, "decode offer"),
                            <<ErrorFrame("invalid offer payload")>>)
       ELSE /\ rpc' = "decide"
            /\ offer' = Head(q0).n
            /\ c2r' = Tail(q0)
            /\ UNCHANGED <<sessVars, fsVars, r2s, sclosed, rclosed, rst, sndVars,
                           resumeOffset, written, lastMetaSync, rhash,
                           expected, rerr, apiVars>>

RecvOffer == RecvOfferOn(c2r)

\* Decide: AutoAccept, else the Prompt callback
RecvDecide ==
    /\ rpc = "decide"
    /\ \E d \in Decisions :
       /\ opts' = [opts EXCEPT !.accept = d]
       /\ IF d = "auto"
          THEN /\ rpc' = "accepted"
               /\ UNCHANGED <<sessOther, fsVars, connVars, sndVars, offer,
                              resumeOffset, written, lastMetaSync, rhash, expected,
                              rerr, apiVars>>
          ELSE IF d = "err"
          THEN RecvReturnEarlyOpt(c2r, Err({}, "prompt accept transfer"),
                                  <<ErrorFrame("receiver prompt failed")>>)
          ELSE \E ok \in ErrorWriteOutcomes :
                 RecvReturnEarlyOpt(c2r,
                     IF ok THEN Err({"Rejected"}, "transfer rejected by receiver")
                           ELSE Err({}, "send reject frame"),
                     <<ErrorFrame("transfer rejected")>>)

\* prepareResumeState(paths, offer, enabled): the resume offset, whether it
\* failed, and the partial and meta it leaves.  truncOk: os.Truncate works.
Prepared(off, failed, p, m) ==
    [offset |-> off, err |-> failed, partial |-> p, meta |-> m]

\* a Truncate that leaves the file as it is
NotTruncated(p, n) == p

Truncated(p, n) == File(Slice(p.data, 0, Min(n, Len(p.data))))

\* a prepareResumeState that trusts the offset the meta records
prepareUnclamped(p, m, size, enabled, truncOk) ==
    IF enabled /\ p.exists /\ LoadMeta(m) = "ok" /\ m.expected = size
    THEN Prepared(m.received, FALSE, p, m)
    ELSE Prepared(0, FALSE, NoFile, NoMeta)

\* a prepareResumeState that does not compare the expected size
prepareNoSizeCheck(p, m, size, enabled, truncOk) ==
    IF enabled /\ p.exists /\ LoadMeta(m) = "ok"
    THEN Prepared(Min(m.received, Len(p.data)), FALSE, p, m)
    ELSE Prepared(0, FALSE, IF enabled /\ p.exists THEN File(<<>>) ELSE NoFile, NoMeta)

prepareResumeState(p, m, size, enabled, truncOk) ==
    IF ~enabled THEN Prepared(0, FALSE, NoFile, NoMeta)
    ELSE IF ~p.exists /\ LoadMeta(m) = "notexist" THEN Prepared(0, FALSE, p, m)
    ELSE IF ~p.exists /\ LoadMeta(m) = "ok" THEN Prepared(0, FALSE, p, NoMeta)
    ELSE IF p.exists /\ LoadMeta(m) = "notexist"
         THEN IF truncOk THEN Prepared(0, FALSE, Truncated(p, 0), m)
              ELSE Prepared(0, TRUE, p, m)
    ELSE IF ~p.exists THEN Prepared(0, TRUE, p, m)
    ELSE IF LoadMeta(m) # "ok"
         THEN IF truncOk THEN Prepared(0, FALSE, Truncated(p, 0), NoMeta)
              ELSE Prepared(0, TRUE, p, m)
    ELSE IF m.expected # size
         THEN IF truncOk THEN Prepared(0, FALSE, Truncated(p, 0), NoMeta)
              ELSE Prepared(0, TRUE, p, m)
    ELSE IF Len(p.data) > size
         THEN IF truncOk
              THEN Prepared(Min(m.received, size), FALSE, Truncated(p, size), m)
              ELSE Prepared(0, TRUE, p, m)
    ELSE Prepared(Min(m.received, Len(p.data)), FALSE, p, m)

\* Accepted: ResolvePaths, then prepareResumeState
RecvPrepare ==
    /\ rpc = "accepted"
    /\ \E truncOk \in BOOLEAN, enabled \in Flag :
        LET r == prepareResumeState(partial, meta, offer, enabled = "yes", truncOk) IN
        /\ opts' = [opts EXCEPT !.resume = enabled]
        /\ partial' = r.partial
        /\ meta' = r.meta
        /\ IF r.err
           THEN /\ RecvReturn(c2r, Err({}, "prepare resume state"),
                              <<ErrorFrame("unable to prepare resume state")>>)
                /\ UNCHANGED resumeOffset
           ELSE /\ rpc' = "sendAccept"
                /\ resumeOffset' = r.offset
                /\ UNCHANGED <<connVars, rerr, written, lastMetaSync, rhash,
                               expected>>
    /\ UNCHANGED <<sessOther, final, lock, sclosed, sndVars, offer, apiVars>>

\* ACCEPT with the resume offset, flushed
RecvAccept ==
    /\ rpc = "sendAccept"
    /\ \E ok \in ErrorWriteOutcomes :
        IF ok
        THEN /\ rpc' = "open"
             /\ r2s' = Reply(r2s, <<AcceptFrame(resumeOffset)>>)
             /\ UNCHANGED <<sessVars, fsVars, c2r, sclosed, rclosed, rst, sndVars,
                            offer, resumeOffset, written, lastMetaSync, rhash,
                            expected, rerr, apiVars>>
        ELSE RecvReturnEarly(c2r, Err({"Network"}, "flush accept frame"), <<>>)

\* a return after the partial was opened: the deferred function runs
RecvReturnDeferred(q, err, replies, p, m, preservePartial) ==
    /\ RecvReturn(q, err, replies)
    /\ \E keepPartial \in Flag :
        /\ opts' = [opts EXCEPT !.keepPartial = keepPartial]
        /\ partial' = Deferred(p, m, keepPartial, preservePartial).partial
        /\ meta' = Deferred(p, m, keepPartial, preservePartial).meta

\* os.OpenFile(partial, O_CREATE|O_RDWR): an existing file keeps its bytes
Opened(p) == IF p.exists THEN p ELSE File(<<>>)

\* the in-memory resume.Meta of the handler with ReceivedOffset = n; its
\* literal sets ExpectedSize, ReceivedOffset and OriginalName only
MetaAt(n) ==
    SavedMeta([expected |-> offer, received |-> n, session |-> EmptySessionID])

\* open the partial, seek to the resume offset, write the initial meta
RecvOpen ==
    /\ rpc = "open"
    /\ \E openOk \in BOOLEAN, saveOk \in BOOLEAN :
        IF ~openOk
        THEN /\ RecvReturn(c2r, Err({"IO"}, "open partial output file"),
                           <<ErrorFrame("unable to open partial output file")>>)
             /\ UNCHANGED <<opts, partial, meta>>
        ELSE IF ~saveOk
        THEN RecvReturnDeferred(c2r, Err({"IO"}, "write initial resume metadata"),
                                <<>>, Opened(partial), meta, FALSE)
        ELSE /\ rpc' = "streaming"
             /\ partial' = Opened(partial)
             /\ meta' = MetaAt(resumeOffset)
             /\ written' = resumeOffset
             /\ lastMetaSync' = resumeOffset
             /\ rhash' = HashNew
             /\ UNCHANGED <<opts, connVars, rerr, expected>>
    /\ UNCHANGED <<sessOther, final, lock, sclosed, sndVars, offer, resumeOffset,
                   apiVars>>

\* a write that lands at the end of the file whatever the position
WriteAppend(data, pos, bytes) == data \o bytes

\* file.Write at the current position pos of a file holding data
WriteAt(data, pos, bytes) ==
    [i \in 1..(IF pos + Len(bytes) > Len(data) THEN pos + Len(bytes) ELSE Len(data)) |->
        IF i > pos /\ i <= pos + Len(bytes) THEN bytes[i - pos]
        ELSE IF i <= Len(data) THEN data[i]
        ELSE 0]

\* a read failure that leaves preservePartial unset
PreserveNever == FALSE

\* a failed ReadFrame, or an ERROR frame of the sender, while streaming
\* sets preservePartial
PreserveOnReadError == TRUE

\* the live hasher is fed only when the transfer started at offset zero
FeedsLiveHasher(off) == off = 0

\* a loop that never checks the payload against the offered size
OverOfferNever(w, bytes, size) == FALSE

\* frame.Payload would make written exceed the offered size
OverOffer(w, bytes, size) == w + Len(bytes) > size

\* a loop that leaves the meta to the final update
MetaSyncNever(w, last) == FALSE

\* the periodic metadata update is due
MetaSyncDue(w, last) == w - last >= resumeMetaUpdateBytes

\* Streaming: one iteration of the loop `for written < offer.Size`
RecvStreamOn(q0) ==
    /\ rpc = "streaming" /\ written < offer /\ ReceiverCanRead(q0)
    /\ LET q == IF q0 = <<>> THEN q0 ELSE Tail(q0) IN
       IF ReadFails(q0)
       THEN /\ RecvReturnDeferred(q,
                    Err(ReadErrKinds(q0) \cup {"Network"}, "read data frame"),
                    <<>>, partial, meta, PreserveOnReadError)
       ELSE LET f == Head(q0) IN
       IF f.type = TypeError
       THEN /\ RecvReturnDeferred(q, Err({"Network"}, "sender reported error"),
                                  <<>>, partial, meta, PreserveOnReadError)
       ELSE IF f.type # TypeData
       THEN /\ RecvReturnDeferred(q, Err({"InvalidProtocol"}, "expected DATA frame"),
                    <<ErrorFrame("expected DATA frame")>>, partial, meta, FALSE)
       ELSE IF OverOffer(written, f.data, offer)
       THEN /\ RecvReturnDeferred(q,
                    Err({"InvalidProtocol"}, "received more bytes than expected"),
                    <<ErrorFrame("received more data than offered")>>,
                    partial, meta, FALSE)
       ELSE \E wr \in {"ok", "fail"}, saveOk \in BOOLEAN :
            LET p == File(WriteAt(partial.data, written, f.data))
                w == written + Len(f.data)
            IN
            IF wr = "fail"
            THEN /\ RecvReturnDeferred(q, Err({"IO"}, "write output file"),
                        <<ErrorFrame("receiver failed writing file")>>,
                        partial, meta, FALSE)
            ELSE IF MetaSyncDue(w, lastMetaSync) /\ ~saveOk
            THEN /\ RecvReturnDeferred(q,
                        Err({"IO"}, "periodic resume metadata update"),
                        <<>>, p, meta, FALSE)
            ELSE /\ c2r' = q
                 /\ partial' = p
                 /\ rhash' = IF FeedsLiveHasher(resumeOffset)
                             THEN HashWrite(rhash, f.data) ELSE rhash
                 /\ written' = w
                 /\ meta' = IF MetaSyncDue(w, lastMetaSync) THEN MetaAt(w) ELSE meta
                 /\ lastMetaSync' = IF MetaSyncDue(w, lastMetaSync) THEN w
                                    ELSE lastMetaSync
                 /\ UNCHANGED <<opts, rpc, rerr, r2s, rclosed, rst, expected>>
    /\ UNCHANGED <<sessOther, final, lock, sclosed, sndVars, offer, resumeOffset,
                   apiVars>>

RecvStream == RecvStreamOn(c2r)

\* the loop has ended: final metadata update
RecvEndStream ==
    /\ rpc = "streaming" /\ written >= offer
    /\ \E saveOk \in BOOLEAN :
        IF saveOk
        THEN /\ rpc' = "awaitDone"
             /\ meta' = MetaAt(written)
             /\ UNCHANGED <<opts, partial, connVars, rerr, written, lastMetaSync,
                            rhash, expected>>
        ELSE RecvReturnDeferred(c2r, Err({"IO"}, "final resume metadata update"),
                                <<>>, partial, meta, FALSE)
    /\ UNCHANGED <<sessOther, final, lock, sclosed, sndVars, offer, resumeOffset,
                   apiVars>>

\* AwaitDone: read and decode the DONE frame
RecvDoneOn(q0) ==
    /\ rpc = "awaitDone" /\ ReceiverCanRead(q0)
    /\ LET q == IF q0 = <<>> THEN q0 ELSE Tail(q0) IN
       IF ReadFails(q0)
       THEN /\ RecvReturnDeferred(q,
                    Err(ReadErrKinds(q0) \cup {"Network"}, "read done frame"),
                    <<ErrorFrame("missing DONE frame")>>, partial, meta, TRUE)
       ELSE IF Head(q0).type # TypeDone
       THEN /\ RecvReturnDeferred(q, Err({"InvalidProtocol"}, "expected DONE frame"),
                    <<ErrorFrame("expected DONE frame")>>, partial, meta, FALSE)
       ELSE IF ~Head(q0).wf
       THEN /\ RecvReturnDeferred(q, Err({"InvalidProtocol"}, "decode done payload"),
                    <<ErrorFrame("invalid DONE payload")>>, partial, meta, FALSE)
       ELSE /\ rpc' = "verify"
            /\ expected' = Head(q0).n
            /\ c2r' = q
            /\ UNCHANGED <<opts, partial, meta, r2s, rclosed, rst, rerr, written,
                           lastMetaSync, rhash>>
    /\ UNCHANGED <<sessOther, final, lock, sclosed, sndVars, offer, resumeOffset,
                   apiVars>>

RecvDone == RecvDoneOn(c2r)

\* a handler that takes the sum of the live hasher whatever the offset
ActualDigestLive(off, p, h) == HashSum(h)

\* the digest the receiver computed: a rehash of the partial after a
\* resume, else the sum of the live hasher
ActualDigest(off, p, h) == IF off > 0 THEN hashFile(p.data) ELSE HashSum(h)

\* a comparison that accepts any digest
DigestsEqualAlways(e, a) == TRUE

\* subtle.ConstantTimeCompare(expectedDigest, actualDigest) == 1
DigestsEqual(e, a) == e = a

\* Verify and Finalize: compare, fsync, rename partial to final, remove
\* meta and lock
RecvVerify ==
    /\ rpc = "verify"
    /\ \E syncOk \in BOOLEAN, renameOk \in BOOLEAN :
        IF ~DigestsEqual(expected, ActualDigest(resumeOffset, partial, rhash))
        THEN /\ RecvReturnDeferred(c2r,
                    Err({"InvalidProtocol"}, "integrity check failed"),
                    <<ErrorFrame("integrity check failed")>>, partial, meta, FALSE)
             /\ UNCHANGED <<final, lock>>
        ELSE IF ~syncOk
        THEN /\ RecvReturnDeferred(c2r, Err({"IO"}, "sync output file"), <<>>,
                                   partial, meta, FALSE)
             /\ UNCHANGED <<final, lock>>
        ELSE IF ~renameOk
        THEN /\ RecvReturnDeferred(c2r, Err({"IO"}, "finalize partial file"), <<>>,
                                   partial, meta, FALSE)
             /\ UNCHANGED <<final, lock>>
        ELSE /\ RecvReturn(c2r, NoErr, <<>>)
             /\ final' = File(partial.data)
             /\ partial' = NoFile
             /\ meta' = NoMeta
             /\ lock' = 0
             /\ UNCHANGED opts
    /\ UNCHANGED <<sessOther, sclosed, sndVars, offer, resumeOffset, apiVars>>

\* A hand-written client writes one frame, whatever it is, and the receiver
\* reads it.
RawFeed ==
    /\ spc = "raw" /\ ~sclosed /\ c2r = <<>>
    /\ \E f \in RawFrames :
        \/ RecvHelloOn(<<f>>)
        \/ RecvOfferOn(<<f>>)
        \/ RecvStreamOn(<<f>>)
        \/ RecvDoneOn(<<f>>)

Next ==
    \/ StartSession
    \/ SendHandshake \/ SendAwaitAccept \/ SendData \/ SendDone
    \/ SendAwaitStatus \/ SendAbort
    \/ RawFeed \/ RawClose
    \/ RecvHello \/ RecvOffer \/ RecvDecide \/ RecvPrepare \/ RecvAccept
    \/ RecvOpen \/ RecvStream \/ RecvEndStream \/ RecvDone \/ RecvVerify

Spec == Init /\ [][Next]_vars

\* ------------------------------------------------------- lock file
\* resume.AcquireLock and FileLock.Release called by several receiver
\* processes on one lock path.  lock is the owner written in the file at that
\* path (0: no file); lpc[r] is where receiver r stands: "idle", "create"
\* (inside AcquireLock, before the exclusive create), "held" (AcquireLock
\* returned a FileLock), "busy" (it returned ErrLockBusy) or "released".
notLock ==
    <<sessVars, final, partial, meta, connVars, sndVars, rcvVars, codecVars,
      saveVars, payVars, filesVars>>

\* AcquireLock, first statement: if breakLock { os.Remove(path) }
AcquireLockRemove(r) ==
    /\ lpc[r] = "idle"
    /\ \E b \in BOOLEAN :
        /\ breakLock' = [breakLock EXCEPT ![r] = b]
        /\ lock' = IF b THEN 0 ELSE lock
    /\ lpc' = [lpc EXCEPT ![r] = "create"]
    /\ UNCHANGED notLock

\* AcquireLock, os.OpenFile(path, O_CREATE|O_EXCL|O_WRONLY): the file is
\* created and the lock returned, or it exists and the call fails LockBusy
AcquireLockCreate(r) ==
    /\ lpc[r] = "create"
    /\ IF lock = 0
       THEN lock' = r /\ lpc' = [lpc EXCEPT ![r] = "held"]
       ELSE lock' = lock /\ lpc' = [lpc EXCEPT ![r] = "busy"]
    /\ UNCHANGED <<breakLock, notLock>>

\* FileLock.Release: close the handle, os.Remove(l.path); nothing in the
\* FileLock records that it was released already
Release(r) ==
    /\ lpc[r] \in {"held", "released"}
    /\ lock' = 0
    /\ lpc' = [lpc EXCEPT ![r] = "released"]
    /\ UNCHANGED <<breakLock, notLock>>

NextLock ==
    \E r \in Receivers :
        AcquireLockRemove(r) \/ AcquireLockCreate(r) \/ Release(r)

SpecLock == Init /\ [][NextLock]_vars

\* ------------------------------------------------------ properties
\* C1: the final file changes only in the step in which the handler, having
\* read DONE, found its computed digest equal to the digest DONE carried,
\* and it is then the renamed partial; the handler returns success in that
\* step, so no step that ends in a failure creates a final file.
C1_FinalOnlyAfterVerify ==
    [][final' # final =>
        /\ rpc = "verify" /\ rpc' = "done"
        /\ expected = ActualDigest(resumeOffset, partial, rhash)
        /\ final' = File(partial.data)
        /\ partial' = NoFile]_vars

\* a hand-written client completed a transfer of two bytes or more
C1_Witness ==
    /\ peer = "raw" /\ rpc = "done" /\ rerr = NoErr
    /\ final.exists /\ Len(final.data) >= 2

\* C2: when Send and HandleConnection both return success, the final file
\* holds the bytes of the sender's source file, and the digest the handler
\* read from DONE before it succeeded is the digest of those bytes.
C2_CompletedTransferIsExact ==
    /\ [](peer = "send" /\ spc = "done" /\ rpc = "done" => final = File(src))
    /\ [][peer = "send" /\ rpc = "verify" /\ rpc' = "done" =>
            /\ final' = File(src)
            /\ expected = hashFile(src)]_vars

\* Send and the handler both succeeded on a source of several chunks
C2_Witness ==
    /\ peer = "send" /\ spc = "done" /\ rpc = "done"
    /\ Len(src) >= 2 /\ final = File(src)

\* C3: a Send without mutator to a receiver that resumed at an offset k,
\* 0 < k < size, left by an interrupted transfer, when neither the sender
\* aborts nor the receiver's disk fails, completes on both sides with the
\* final file equal to the source and no partial, meta or lock file left.
C3_ResumedSendCompletes ==
    (/\ peer = "send" /\ mutAt = -1 /\ opts.resume = "yes"
     /\ resumeOffset > 0 /\ resumeOffset < Len(src)
     /\ spc \in {"done", "failed"} /\ rpc \in {"done", "failed"}
     /\ serr.cause # "connection closed" /\ "IO" \notin rerr.kinds)
    => (/\ spc = "done" /\ rpc = "done"
        /\ final = File(src)
        /\ partial = NoFile /\ meta = NoMeta /\ lock = 0)

\* C4: when the size of the OFFER differs from the expected size of the meta
\* persisted next to an existing partial and the disk does not fail, the
\* handler fails with a Rejected error and leaves the partial as it was.
C4_MismatchRejected ==
    [][(/\ rpc = "accepted" /\ rpc' # rpc /\ opts'.resume = "yes"
        /\ partial.exists /\ LoadMeta(meta) = "ok" /\ meta.expected # offer
        /\ rerr'.cause # "prepare resume state")
       => (/\ rpc' = "failed" /\ "Rejected" \in rerr'.kinds
           /\ partial' = partial)]_vars

\* C5: when the chunk mutator altered a byte of a Send, the handler never
\* succeeds; its Verify step fails with "integrity check failed", sends the
\* ERROR frame to a sender still connected and, KeepPartial unset, removes
\* the partial and the meta; and the Send of that session does not succeed.
C5_AlteredByteDetected ==
    /\ [](peer = "send" /\ mutAt >= 0 => rpc # "done")
    /\ [][(peer = "send" /\ mutAt >= 0 /\ rpc = "verify" /\ rpc' # rpc) =>
            /\ rpc' = "failed" /\ rerr'.cause = "integrity check failed"
            /\ final' = final
            /\ (~sclosed => r2s' = r2s \o <<ErrorFrame("integrity check failed")>>)
            /\ (opts'.keepPartial = "no" => partial' = NoFile /\ meta' = NoMeta)]_vars
    /\ [](/\ peer = "send" /\ rpc = "failed"
          /\ rerr.cause = "integrity check failed"
          /\ spc \in {"done", "failed"}
          => spc = "failed")

\* the mismatch was detected, the files removed and the sender told
C5_Witness ==
    /\ peer = "send" /\ mutAt >= 0 /\ Len(src) >= 2
    /\ rpc = "failed" /\ rerr.cause = "integrity check failed"
    /\ opts.keepPartial = "no" /\ partial = NoFile /\ meta = NoMeta
    /\ spc = "failed" /\ serr.kinds = {"Rejected"}

\* C6: when the ReadFrame of the streaming loop fails, the handler returns a
\* Network error and the partial and the meta stay on disk as they were, the
\* meta describing the offered size and an offset inside the partial.
C6_ReadFailureKeepsPartial ==
    [][(rpc = "streaming" /\ rpc' = "failed" /\ rerr'.cause = "read data frame") =>
        /\ "Network" \in rerr'.kinds
        /\ partial.exists /\ partial' = partial
        /\ LoadMeta(meta) = "ok" /\ meta' = meta
        /\ meta.expected = offer /\ meta.received <= Len(partial.data)
        /\ final' = final]_vars

\* a Send was cut after some bytes and KeepPartial was unset
C6_Witness ==
    /\ peer = "send" /\ rpc = "failed" /\ rerr.cause = "read data frame"
    /\ opts.keepPartial = "no"
    /\ partial.exists /\ Len(partial.data) >= 2 /\ meta.received >= 2

\* the state in which a hand-written client, having sent HELLO, OFFER and
\* DATA for less than the offered size, has closed
EarlyClose ==
    /\ peer = "raw" /\ rpc = "streaming" /\ sclosed /\ c2r = <<>>
    /\ written - resumeOffset \in 1..MaxChunkSize
    /\ written < offer

\* C7 as stated: after such an early close the handler fails with a Network
\* error and, KeepPartial unset, the partial file is removed.
C7_EarlyCloseRemovesPartial ==
    [][(EarlyClose /\ rpc' # rpc) =>
        /\ rpc' = "failed" /\ "Network" \in rerr'.kinds
        /\ (opts'.keepPartial = "no" => ~partial'.exists)]_vars

\* C7 amended: after such an early close the handler fails with a Network
\* error, no final file is created and, whatever KeepPartial is, the partial file
\* and the meta stay on disk.
C7_EarlyCloseKeepsPartial ==
    [][(EarlyClose /\ rpc' # rpc) =>
        /\ rpc' = "failed" /\ rerr'.kinds = {"Network"}
        /\ final' = final
        /\ partial.exists /\ partial' = partial
        /\ LoadMeta(meta) = "ok" /\ meta' = meta]_vars

\* the handler failed on the early close of a first connection
C7_Witness ==
    /\ peer = "raw" /\ sclosed /\ rpc = "failed"
    /\ rerr = Err({"Network"}, "read data frame")
    /\ opts.keepPartial = "no"
    /\ resumeOffset = 0 /\ offer >= 2
    /\ partial.exists /\ Len(partial.data) = 1 /\ ~final.exists

\* C8: at most one receiver holds the lock.
C8_AtMostOneHolder ==
    Cardinality({r \in Receivers : lpc[r] = "held"}) <= 1

\* C9: a handler that finds the lock file present when it is about to prepare
\* the resume state fails with LockBusy, sends an ERROR frame and leaves the
\* partial and the meta untouched.
C9_LockBusyLeavesFiles ==
    [][(lock # 0 /\ rpc = "accepted" /\ rpc' # rpc) =>
        /\ rpc' = "failed" /\ "LockBusy" \in rerr'.kinds
        /\ (~sclosed => Len(r2s') = Len(r2s) + 1)
        /\ partial' = partial /\ meta' = meta]_vars

\* the steps of the handler after Accepted, where the lock would be held
AfterAccepted == {"sendAccept", "open", "streaming", "awaitDone", "verify"}

WritesPartial ==
    /\ partial'.exists
    /\ \/ ~partial.exists
       \/ Len(partial'.data) > Len(partial.data)
       \/ partial'.data # Slice(partial.data, 0, Len(partial'.data))

\* C11: Send writes DATA only in its streaming loop, which it enters only by
\* reading an ACCEPT frame after it wrote HELLO and OFFER; the handler waits
\* for and takes DONE only when written = offer.Size; and the handler writes
\* into the partial only after its ACCEPT was written and flushed.
C11_ProtocolOrdering ==
    /\ [][(peer = "send" /\ spc' = "awaitAccept" /\ spc # "awaitAccept") =>
            /\ spc = "start"
            /\ c2r' = Wire(c2r, <<HelloFrame, OfferFrame(Len(src))>>)]_vars
    /\ [][(peer = "send" /\ spc' = "streaming" /\ spc # "streaming") =>
            /\ spc = "awaitAccept"
            /\ r2s # <<>> /\ Head(r2s).type = TypeAccept]_vars
    /\ [][(peer = "send" /\ Len(c2r') > Len(c2r) /\ c2r'[Len(c2r')].type = TypeData)
            => spc = "streaming"]_vars
    /\ [](rpc \in {"awaitDone", "verify"} => written = offer)
    /\ [][(rpc' = "open" /\ rpc # "open") =>
            /\ rpc = "sendAccept"
            /\ (~sclosed => r2s' = r2s \o <<AcceptFrame(resumeOffset)>>)]_vars
    /\ [][WritesPartial => rpc \in {"open", "streaming"}]_vars

\* a Send has streamed several frames and the handler holds its DONE
C11_Witness ==
    /\ peer = "send" /\ Len(src) > MaxChunkSize
    /\ spc = "awaitStatus" /\ rpc = "verify" /\ written = offer
    /\ partial = File(src)

\* C12: a DATA frame at the head of the stream that would take written past
\* offer.Size makes the handler fail with InvalidProtocol and send an ERROR
\* frame, and none of its bytes reach the partial; written never exceeds
\* offer.Size and the partial holds what was written.
C12_OverOfferRejected ==
    /\ [][(/\ rpc = "streaming" /\ rpc' # rpc /\ written < offer
            /\ c2r # <<>> /\ Head(c2r).valid /\ Head(c2r).type = TypeData
            /\ written + Len(Head(c2r).data) > offer) =>
            /\ rpc' = "failed" /\ "InvalidProtocol" \in rerr'.kinds
            /\ (~sclosed => r2s' =
                    r2s \o <<ErrorFrame("received more data than offered")>>)
            /\ partial' \in {partial, NoFile}]_vars
    /\ [][(rpc' = "failed" /\ rerr'.cause = "received more bytes than expected") =>
            /\ "InvalidProtocol" \in rerr'.kinds
            /\ partial' \in {partial, NoFile}]_vars
    /\ [](rpc \in {"streaming", "awaitDone", "verify"} =>
            written <= offer /\ Len(partial.data) >= written)

\* a hand-written client sent more than it offered
C12_Witness ==
    /\ peer = "raw" /\ rpc = "failed" /\ offer >= 1
    /\ rerr = Err({"InvalidProtocol"}, "received more bytes than expected")
    /\ r2s # <<>> /\ r2s[Len(r2s)] = ErrorFrame("received more data than offered")

\* C13: whatever session id the OFFER of the connection carried (the handler
\* decodes it and never reads it), once the handler has decided to resume at
\* an offset above zero the meta on disk names that session id.
C13_ResumeMatchesSession ==
    \A sid \in SessionIDs :
        (rpc \in AfterAccepted /\ resumeOffset > 0 /\ LoadMeta(meta) = "ok")
        => meta.session = sid

\* =========================================================================
\* WriteFrame / ReadFrame on a byte stream (protocol.go, protocol_test.go):
\* a writer puts frames on a buffer, or a peer puts octets of its own there,
\* and ReadFrame is applied to what the buffer holds.
\* =========================================================================
notCodec == <<sessVars, fsVars, connVars, sndVars, rcvVars, lockVars, saveVars,
              payVars, filesVars>>

\* frame types a caller may pass: the six known ones and an unknown one
CodecTypes == TypeHello..(TypeError + 1)

CodecFrames == {WireFrame(t, p) : t \in CodecTypes, p \in SeqsUpTo(MaxPayloadLen)}

\* header fields a peer may send
Magics == {Magic} \cup {[Magic EXCEPT ![i] = 88] : i \in 1..4}
Versions == {ProtocolVersion - 1, ProtocolVersion, ProtocolVersion + 1, 256}
Lengths == 0..(MaxPayloadLen + 1) \cup {256, 16777216}
Reserveds == {0, 1, 16777216}

Zeros(n) == [i \in 1..n |-> 0]

\* WriteFrame(&buf, frame), as in TestFrameRoundTrip and TestLengthLimitsRespected
CodecWrite ==
    /\ cpc \in {"idle", "written"}
    /\ Len(wrote) < MaxFrames
    /\ \E f \in CodecFrames :
        LET w == WriteFrame(f)
        IN  /\ wire' = wire \o w.bytes
            /\ IF w.err = NoErr
               THEN /\ wrote' = Append(wrote, f)
                    /\ cpc' = "written"
                    /\ rres' = rres
               ELSE /\ wrote' = wrote
                    /\ cpc' = "rejected"
                    /\ rres' = ReadResult(f, w.err, 0)
    /\ UNCHANGED notCodec

\* a peer's own octets, as in TestReadFrameRejectsInvalidMagicAndVersion: a
\* header with any fields, followed by some or all of the announced payload,
\* the stream ending anywhere
CodecInject ==
    /\ cpc = "idle"
    /\ \E magic \in Magics, version \in Versions, t \in CodecTypes,
          ln \in Lengths, reserved \in Reserveds,
          n \in 0..(HeaderSize + MaxPayloadLen + 1) :
        LET full == Header(magic, version, t, ln, reserved)
                        \o Zeros(Min(ln, MaxPayloadLen + 1))
        IN  wire' = SubSeq(full, 1, Min(n, Len(full)))
    /\ cpc' = "injected"
    /\ UNCHANGED <<wrote, rres>>
    /\ UNCHANGED notCodec

\* ReadFrame(&buf)
CodecRead ==
    /\ cpc \in {"written", "injected"}
    /\ LET r == ReadFrame(wire)
       IN  /\ rres' = r
           /\ wire' = SubSeq(wire, r.consumed + 1, Len(wire))
    /\ cpc' = "read"
    /\ UNCHANGED wrote
    /\ UNCHANGED notCodec

NextCodec == CodecWrite \/ CodecInject \/ CodecRead

SpecCodec == Init /\ [][NextCodec]_vars

\* C14: for every frame whose payload is within the cap of its type (the
\* frames WriteFrame accepts), ReadFrame applied to the stream WriteFrame
\* wrote returns a frame with the same type and the same payload, and
\* consumes exactly the octets of that frame: what was written after it is
\* left on the stream untouched.
C14_FrameRoundTrip ==
    [][(cpc = "written" /\ cpc' = "read") =>
          LET F == wrote[1]
              n == HeaderSize + Len(F.payload)
          IN  /\ Len(F.payload) <= maxPayloadByType(F.type)
              /\ rres'.err = NoErr
              /\ rres'.frame.type = F.type
              /\ rres'.frame.payload = F.payload
              /\ rres'.consumed = n
              /\ wire' = SubSeq(wire, n + 1, Len(wire))
              /\ Len(wire') = Len(wire) - n]_vars

C14_Witness ==
    /\ cpc = "read"
    /\ Len(wrote) = 2
    /\ wrote[1].type = TypeDone
    /\ Len(wrote[1].payload) = 2 + HashSize
    /\ rres.err = NoErr
    /\ rres.frame = wrote[1]
    /\ Len(wire) = HeaderSize + MaxChunkSize

\* C15: for every 16-octet header whose magic is not SSYN, whose version is
\* not 1, whose reserved field is not zero, or whose declared length exceeds
\* the cap of its type (HELLO 0, DATA MaxChunkSize, DONE 2+HashSize, every
\* other type MaxControlPayload), ReadFrame returns an InvalidProtocol error
\* having consumed the header only: no octet of a payload is read.
C15_BadHeaderRejected ==
    [][(cpc = "injected" /\ cpc' = "read" /\ Len(wire) >= HeaderSize) =>
          LET t   == wire[7] * 256 + wire[8]
              ln  == ((wire[9] * 256 + wire[10]) * 256 + wire[11]) * 256 + wire[12]
              cap == IF t = TypeHello THEN 0
                     ELSE IF t = TypeData THEN MaxChunkSize
                     ELSE IF t = TypeDone THEN 2 + HashSize
                     ELSE MaxControlPayload
              bad == \/ <<wire[1], wire[2], wire[3], wire[4]>> # <<83, 83, 89, 78>>
                     \/ wire[5] * 256 + wire[6] # 1
                     \/ \E i \in 13..16 : wire[i] # 0
                     \/ ln > cap
          IN  bad =>
                /\ rres'.err.kinds = {"InvalidProtocol"}
                /\ rres'.frame = WireFrame(0, <<>>)
                /\ rres'.consumed = HeaderSize
                /\ wire' = SubSeq(wire, HeaderSize + 1, Len(wire))]_vars

C15_Witness ==
    /\ cpc = "read"
    /\ wrote = <<>>
    /\ rres.err = Err({"InvalidProtocol"}, "payload length too large")
    /\ rres.consumed = HeaderSize
    /\ Len(wire) = MaxPayloadLen + 1

\* =========================================================================
\* Exit codes (errors.go, app.go): App.Run returns ExitCode of the error the
\* command returned, which for send and recv is the error of Send and of
\* HandleConnection.
\* =========================================================================
ExitCode(err) ==
    IF err = NoErr THEN 0
    ELSE IF "Usage" \in err.kinds THEN 2
    ELSE 1

\* C16: ExitCode maps nil to 0, an error of kind Usage to 2, Rejected to 3,
\* InvalidProtocol to 4, Network to 5, IO to 6, and an error of kind LockBusy
\* or of no kind to 1, whatever message wraps the kind.  Stated of the error
\* each side of a session returned, when it carries at most one kind.
C16_ExitCodeByKind ==
    LET asClaimed(err) ==
            /\ err = NoErr => ExitCode(err) = 0
            /\ err.kinds = {"Usage"} => ExitCode(err) = 2
            /\ err.kinds = {"Rejected"} => ExitCode(err) = 3
            /\ err.kinds = {"InvalidProtocol"} => ExitCode(err) = 4
            /\ err.kinds = {"Network"} => ExitCode(err) = 5
            /\ err.kinds = {"IO"} => ExitCode(err) = 6
            /\ err.kinds = {"LockBusy"} => ExitCode(err) = 1
            /\ (err.kinds = {} /\ err # NoErr) => ExitCode(err) = 1
    IN  /\ spc \in {"done", "failed"} => asClaimed(serr)
        /\ rpc \in {"done", "failed"} => asClaimed(rerr)

\* C17: with KeepPartial set, a failure return of HandleConnection, whatever
\* its cause (transport, protocol, local IO, integrity), removes neither the
\* partial file nor the meta sidecar: a partial on disk when the failure
\* occurs is there after the return and no shorter, a meta on disk is there
\* after the return, and once the handler has passed its initial meta write
\* both exist.  (A return taken before the deferred
\* cleanup is installed does not read KeepPartial.)
C17_KeepPartialKeepsFiles ==
    [][(rpc' = "failed" /\ rpc # "failed" /\ opts'.keepPartial # "no") =>
          /\ partial.exists =>
                (partial'.exists /\ Len(partial'.data) >= Len(partial.data))
          /\ meta.state # "none" => meta'.state # "none"
          /\ rpc \in {"streaming", "awaitDone", "verify"} =>
                (partial'.exists /\ LoadMeta(meta') = "ok")]_vars

C17_Witness ==
    /\ rpc = "failed"
    /\ opts.keepPartial = "yes"
    /\ rerr = Err({"InvalidProtocol"}, "integrity check failed")
    /\ partial.exists /\ Len(partial.data) = offer /\ offer > 0
    /\ LoadMeta(meta) = "ok"
    /\ ~final.exists

LeftPartials == {NoFile} \cup {File(f) : f \in Sources}

LeftMetas ==
    {NoMeta, CorruptMeta}
    \cup {SavedMeta([expected |-> e, received |-> r, session |-> EmptySessionID]) :
            e \in 0..MaxSize, r \in 0..MaxSize}
    \cup {[SavedMeta([expected |-> e, received |-> r, session |-> EmptySessionID])
                EXCEPT !.version = MetaVersion + 1] :
            e \in 0..MaxSize, r \in 0..MaxSize}

InitPrepare ==
    /\ session = 1 /\ src = <<>> /\ mutAt = -1 /\ peer = "raw"
    /\ opts = [NoOptions EXCEPT !.accept = "auto"]
    /\ final = NoFile
    /\ partial \in LeftPartials
    /\ meta \in LeftMetas
    /\ lock = 0
    /\ c2r = <<>> /\ r2s = <<>> /\ sclosed = FALSE /\ rclosed = FALSE /\ rst = FALSE
    /\ spc = "raw" /\ sent = 0 /\ shash = HashNew /\ serr = NoErr
    /\ rpc = "accepted" /\ offer \in 0..MaxSize /\ resumeOffset = 0 /\ written = 0
    /\ lastMetaSync = 0 /\ rhash = HashNew /\ expected = 0 /\ rerr = NoErr
    /\ lpc = [r \in Receivers |-> "idle"]
    /\ breakLock = [r \in Receivers |-> FALSE]
    /\ cpc = "idle" /\ wire = <<>> /\ wrote = <<>> /\ rres = NoRead
    /\ mpc = "idle" /\ mdisk = Path(NoTemp, NoTemp) /\ mtmp = NoTemp /\ mnew = NoMeta
    /\ ppc = "idle" /\ pval = NoValue /\ pbytes = <<>> /\ pres = NoDecode
    /\ fpc = "idle" /\ dir = FreshDir /\ paths = NoPaths /\ overwrite = FALSE
    /\ incoming = <<>>

NextPrepare == RecvPrepare \/ RecvAccept

SpecPrepare == InitPrepare /\ [][NextPrepare]_vars

\* C20: with resume enabled, a partial and a loadable meta on disk and the
\* meta's expected size equal to the offer's, prepareResumeState returns
\* min(meta.received_offset, size(partial), expected_size) as the offset (it
\* returns an error instead only when the partial is longer than the offer
\* and cannot be truncated); and every offset the handler sends in ACCEPT is
\* at most offer.size.
C20_ResumeOffsetClamped ==
    /\ [][(rpc = "accepted" /\ rpc' # "accepted" /\ opts'.resume = "yes"
             /\ partial.exists /\ LoadMeta(meta) = "ok" /\ meta.expected = offer) =>
            \/ /\ rpc' = "sendAccept"
               /\ resumeOffset' =
                     Min(meta.received, Min(Len(partial.data), meta.expected))
            \/ /\ rpc' = "failed"
               /\ Len(partial.data) > offer
               /\ partial' = partial]_vars
    /\ [][(rpc = "sendAccept" /\ Len(r2s') > Len(r2s)) =>
            /\ r2s'[Len(r2s')].type = TypeAccept
            /\ r2s'[Len(r2s')].n = resumeOffset
            /\ r2s'[Len(r2s')].n <= offer]_vars

C20_Witness ==
    /\ rpc = "open"
    /\ opts.resume = "yes"
    /\ partial.exists /\ LoadMeta(meta) = "ok" /\ meta.expected = offer
    /\ resumeOffset > 0
    /\ Len(partial.data) = resumeOffset
    /\ meta.received > resumeOffset
    /\ r2s = <<AcceptFrame(resumeOffset)>>

\* =========================================================================
\* resume.SaveMetaAtomic on one meta path (lock.go 91-121), step by step,
\* with the file system writing back on its own and the machine crashing at
\* any step.  Readers (LoadMeta) see mdisk.cur.
\* =========================================================================
notSave == <<sessVars, fsVars, connVars, sndVars, rcvVars, lockVars, codecVars,
             payVars, filesVars>>

\* tmp.Sync() that returns without having written anything back
SyncNothing(f) == f

\* tmp.Sync(): all the file's octets are on stable storage
Synced(f) == [f EXCEPT !.durable = f.len]

\* what a crash leaves of a file: its durable octets and any of the others
AfterCrash(f) ==
    IF ~f.exists THEN {f}
    ELSE {DiskFile(f.rec, n, n) : n \in f.durable..f.len}

\* meta.Version = MetaVersion; json.Marshal; MkdirAll
SaveBegin ==
    /\ mpc = "idle"
    /\ \E m \in SaveRecords : mnew' = SavedMeta(m)
    /\ mpc' = "createTemp"
    /\ UNCHANGED <<mdisk, mtmp>>
    /\ UNCHANGED notSave

\* os.CreateTemp in the directory of the meta path
SaveCreateTemp ==
    /\ mpc = "createTemp"
    /\ \E ok \in BOOLEAN :
        IF ok
        THEN /\ mtmp' = DiskFile(mnew, 0, 0)
             /\ mpc' = "write"
             /\ UNCHANGED mnew
        ELSE /\ mpc' = "idle"
             /\ mnew' = NoMeta
             /\ UNCHANGED mtmp
    /\ UNCHANGED mdisk
    /\ UNCHANGED notSave

\* tmp.Write(data): all of it, or a part and an error
SaveWrite ==
    /\ mpc = "write"
    /\ \E n \in 0..MetaLen :
        /\ mtmp' = [mtmp EXCEPT !.len = n]
        /\ mpc' = IF n = MetaLen THEN "sync" ELSE "remove"
    /\ UNCHANGED <<mdisk, mnew>>
    /\ UNCHANGED notSave

\* tmp.Sync()
SaveSync ==
    /\ mpc = "sync"
    /\ \E ok \in BOOLEAN :
        IF ok
        THEN mtmp' = Synced(mtmp) /\ mpc' = "close"
        ELSE mtmp' = mtmp /\ mpc' = "remove"
    /\ UNCHANGED <<mdisk, mnew>>
    /\ UNCHANGED notSave

\* tmp.Close()
SaveClose ==
    /\ mpc = "close"
    /\ \E ok \in BOOLEAN : mpc' = IF ok THEN "rename" ELSE "remove"
    /\ UNCHANGED <<mdisk, mtmp, mnew>>
    /\ UNCHANGED notSave

\* os.Rename(tmpName, path): the temp file takes the place of the meta file
SaveRename ==
    /\ mpc = "rename"
    /\ \E ok \in BOOLEAN :
        IF ok
        THEN mdisk' = Path(mtmp, mdisk.dur) /\ mtmp' = NoTemp
        ELSE UNCHANGED <<mdisk, mtmp>>
    /\ mpc' = "remove"
    /\ UNCHANGED mnew
    /\ UNCHANGED notSave

\* the deferred os.Remove(tmpName), and the return
SaveRemove ==
    /\ mpc = "remove"
    /\ mtmp' = NoTemp
    /\ mnew' = NoMeta
    /\ mpc' = "idle"
    /\ UNCHANGED mdisk
    /\ UNCHANGED notSave

\* the file system commits the rename, or writes back octets of the temp file
FsWriteback ==
    /\ \/ /\ mdisk.dur # mdisk.cur
          /\ mdisk' = Path(mdisk.cur, mdisk.cur)
          /\ UNCHANGED mtmp
       \/ /\ mtmp.exists
          /\ \E n \in (mtmp.durable + 1)..mtmp.len : mtmp' = [mtmp EXCEPT !.durable = n]
          /\ UNCHANGED mdisk
    /\ UNCHANGED <<mpc, mnew>>
    /\ UNCHANGED notSave

\* the machine crashes and restarts: the meta path holds what was committed
\* there last or what was renamed there since, with the octets that survive;
\* a temp file left behind is never read
SaveCrash ==
    /\ \E keep \in {mdisk.cur, mdisk.dur} :
        \E after \in AfterCrash(keep) : mdisk' = Path(after, after)
    /\ mtmp' = NoTemp
    /\ mnew' = NoMeta
    /\ mpc' = "idle"
    /\ UNCHANGED notSave

NextSave ==
    \/ SaveBegin \/ SaveCreateTemp \/ SaveWrite \/ SaveSync \/ SaveClose
    \/ SaveRename \/ SaveRemove \/ FsWriteback \/ SaveCrash

SpecSave == Init /\ [][NextSave]_vars

\* C19: at every step of SaveMetaAtomic, a crash at any step included, the
\* file at the meta path is absent or holds a complete record, never a part
\* of one; and the record there changes only to the complete record being
\* saved or, in a crash, back to the complete record saved before it.
C19_SaveMetaAtomic ==
    /\ [](ContentMeta(mdisk.cur) # CorruptMeta)
    /\ [][mdisk'.cur # mdisk.cur =>
            \/ /\ mpc = "rename"
               /\ LoadMeta(mnew) = "ok"
               /\ ContentMeta(mdisk'.cur) = mnew
            \/ /\ mpc' = "idle"
               /\ ContentMeta(mdisk'.cur) \in
                     {ContentMeta(mdisk.cur), ContentMeta(mdisk.dur)}]_vars

C19_Witness ==
    /\ mpc = "remove"
    /\ mdisk.cur.exists
    /\ ContentMeta(mdisk.cur) = mnew
    /\ mdisk.dur.exists
    /\ LoadMeta(ContentMeta(mdisk.dur)) = "ok"
    /\ ContentMeta(mdisk.dur) # mnew

\* C21: with resume enabled, a meta sidecar on disk whatever it holds and no
\* partial file, prepareResumeState removes the meta and the handler goes on
\* to ACCEPT with resume offset 0.
C21_LoneMetaDiscarded ==
    [][(/\ rpc = "accepted" /\ rpc' # rpc /\ opts'.resume = "yes"
        /\ ~partial.exists /\ LoadMeta(meta) # "notexist")
       => (/\ rpc' = "sendAccept"
           /\ resumeOffset' = 0
           /\ meta' = NoMeta
           /\ partial' = NoFile)]_vars

\* C22: with resume enabled and a partial on disk whose meta is missing or
\* does not load (it does not parse, or its version is not MetaVersion),
\* prepareResumeState truncates the partial to length 0, removes the meta and
\* returns offset 0; when os.Truncate fails it returns an error and leaves
\* both files as they were.
C22_UnusableMetaRestarts ==
    [][(/\ rpc = "accepted" /\ rpc' # rpc /\ opts'.resume = "yes"
        /\ partial.exists
        /\ (meta.state \in {"none", "corrupt"} \/ meta.version # 1))
       => \/ /\ rpc' = "sendAccept"
             /\ resumeOffset' = 0
             /\ partial' = File(<<>>)
             /\ meta' = NoMeta
          \/ /\ rpc' = "failed"
             /\ rerr' = Err({}, "prepare resume state")
             /\ partial' = partial /\ meta' = meta]_vars

C22_Witness ==
    /\ rpc = "sendAccept"
    /\ opts.resume = "yes"
    /\ offer > 0
    /\ partial = File(<<>>)
    /\ meta = NoMeta
    /\ resumeOffset = 0
    /\ r2s = <<>>

\* C23: with resume enabled and the expected size of the loadable meta
\* different from the size of the OFFER, the handler restarts from zero: the
\* reply it writes is an ACCEPT frame with resume offset 0, not an ERROR
\* frame (an ERROR frame is written only when os.Truncate of the partial
\* fails).
C23_SizeMismatchRestarts ==
    /\ [][(/\ rpc = "accepted" /\ rpc' # rpc /\ opts'.resume = "yes"
           /\ LoadMeta(meta) = "ok" /\ meta.expected # offer)
          => \/ /\ rpc' = "sendAccept"
                /\ resumeOffset' = 0
                /\ r2s' = r2s
                /\ meta' = NoMeta
                /\ partial' = IF partial.exists THEN File(<<>>) ELSE NoFile
             \/ /\ rpc' = "failed"
                /\ partial.exists
                /\ rerr' = Err({}, "prepare resume state")
                /\ partial' = partial /\ meta' = meta]_vars
    /\ [][(rpc = "sendAccept" /\ rpc' # rpc) =>
            /\ rpc' = "open"
            /\ r2s' = r2s \o <<AcceptFrame(resumeOffset)>>]_vars

C23_Witness ==
    /\ rpc = "open"
    /\ opts.resume = "yes"
    /\ offer > 0
    /\ resumeOffset = 0
    /\ partial = File(<<>>)
    /\ meta = NoMeta
    /\ r2s = <<AcceptFrame(0)>>

\* C24: while the handler is in its DATA loop, after every DATA frame it has
\* processed, the meta on disk records an offset that is at most the
\* in-memory written count and less than resumeMetaUpdateBytes behind it; and
\* once the loop has ended with written = offer.Size and the handler waits
\* for DONE or verifies, the meta records offer.Size.
C24_MetaLagBounded ==
    /\ rpc = "streaming" =>
          /\ LoadMeta(meta) = "ok"
          /\ meta.received <= written
          /\ written - meta.received < resumeMetaUpdateBytes
    /\ rpc \in {"awaitDone", "verify"} =>
          /\ LoadMeta(meta) = "ok"
          /\ written = offer
          /\ meta.received = offer

C24_Witness ==
    /\ rpc = "streaming"
    /\ resumeOffset = 0
    /\ meta.received = resumeMetaUpdateBytes
    /\ written = meta.received + 1
    /\ Len(partial.data) = written

\* C25: with KeepPartial unset, when the handler fails before its Verify step
\* on a connection whose target is known (the OFFER was decoded) with a
\* Rejected or InvalidProtocol error that is not a transport read error and
\* a partial and a meta of the target are on disk, neither is on disk
\* afterwards.
C25_FailureRemovesPartial ==
    [][(/\ rpc \in {"decide", "accepted", "sendAccept", "open", "streaming",
                    "awaitDone"}
        /\ rpc' = "failed"
        /\ opts'.keepPartial # "yes"
        /\ partial.exists /\ LoadMeta(meta) = "ok"
        /\ rerr'.kinds \cap {"Rejected", "InvalidProtocol"} # {}
        /\ rerr'.kinds \cap {"Network", "IO"} = {})
       => (partial' = NoFile /\ meta' = NoMeta)]_vars

\* =========================================================================
\* Send against any peer (sender.go 28-140): the address Send dials is
\* served by a program that reads what Send writes and answers with frames
\* of its own choice, an ACCEPT with any offset at most once.  resumeOffset
\* is the offset of the ACCEPT this peer wrote.
\* =========================================================================
ServerFrames ==
    {AcceptFrame(o) : o \in 0..(MaxSize + 1)}
    \cup {ErrorFrame("transfer rejected"), ErrorFrame("integrity check failed"),
          BadPayload(TypeError), BadHeader, HelloFrame, DoneFrame(HashNew)}

InitSend ==
    /\ session = 1
    /\ src \in Files
    /\ mutAt \in {-1} \cup (IF Len(src) > 0 THEN {0, Len(src) - 1} ELSE {})
    /\ peer = "send"
    /\ opts = NoOptions
    /\ final = NoFile /\ partial = NoFile /\ meta = NoMeta /\ lock = 0
    /\ c2r = <<>> /\ r2s = <<>> /\ sclosed = FALSE /\ rclosed = FALSE /\ rst = FALSE
    /\ spc = "start" /\ sent = 0 /\ shash = HashNew /\ serr = NoErr
    /\ rpc = "serving" /\ offer = 0 /\ resumeOffset = 0 /\ written = 0
    /\ lastMetaSync = 0 /\ rhash = HashNew /\ expected = 0 /\ rerr = NoErr
    /\ lpc = [r \in Receivers |-> "idle"]
    /\ breakLock = [r \in Receivers |-> FALSE]
    /\ cpc = "idle" /\ wire = <<>> /\ wrote = <<>> /\ rres = NoRead
    /\ mpc = "idle" /\ mdisk = Path(NoTemp, NoTemp) /\ mtmp = NoTemp /\ mnew = NoMeta
    /\ ppc = "idle" /\ pval = NoValue /\ pbytes = <<>> /\ pres = NoDecode
    /\ fpc = "idle" /\ dir = FreshDir /\ paths = NoPaths /\ overwrite = FALSE
    /\ incoming = <<>>

notServer == <<sessVars, fsVars, sclosed, sndVars, offer, written, lastMetaSync,
               rhash, expected, rerr, apiVars>>

\* the peer reads the next frame Send wrote
ServerRead ==
    /\ rpc \in {"serving", "served"} /\ ~rclosed /\ ~SenderOver
    /\ c2r # <<>>
    /\ c2r' = Tail(c2r)
    /\ UNCHANGED <<r2s, rclosed, rst, rpc, resumeOffset>>
    /\ UNCHANGED notServer

\* the peer writes a frame, once Send has read the one before
ServerReply ==
    /\ rpc \in {"serving", "served"} /\ ~rclosed /\ ~SenderOver
    /\ r2s = <<>>
    /\ \E f \in ServerFrames :
        /\ f.type = TypeAccept => rpc = "serving"
        /\ r2s' = r2s \o <<f>>
        /\ rpc' = IF f.type = TypeAccept THEN "served" ELSE rpc
        /\ resumeOffset' = IF f.type = TypeAccept THEN f.n ELSE resumeOffset
    /\ UNCHANGED <<c2r, rclosed, rst>>
    /\ UNCHANGED notServer

\* the peer closes the connection; closing with data unread resets it
ServerClose ==
    /\ rpc \in {"serving", "served"} /\ ~rclosed /\ ~SenderOver
    /\ rclosed' = TRUE
    /\ rst' = (rst \/ c2r # <<>>)
    /\ c2r' = <<>>
    /\ UNCHANGED <<r2s, rpc, resumeOffset>>
    /\ UNCHANGED notServer

NextSend ==
    \/ SendHandshake \/ SendAwaitAccept \/ SendData \/ SendDone
    \/ SendAwaitStatus \/ SendAbort
    \/ ServerRead \/ ServerReply \/ ServerClose

SpecSend == InitSend /\ [][NextSend]_vars

\* a step in which Send reads the next frame of the peer
SendReadsFrame == r2s # <<>> /\ spc' # spc /\ serr'.cause # "connection closed"

\* C26: in AwaitAccept, an ACCEPT whose resume offset exceeds the source size
\* makes Send fail with InvalidProtocol, no DATA frame sent; an ERROR frame
\* makes it fail with Rejected and the receiver's text; a frame of any other
\* type makes it fail with InvalidProtocol.
C26_AwaitAcceptOutcomes ==
    [][(spc = "awaitAccept" /\ SendReadsFrame /\ Head(r2s).valid) =>
          LET f == Head(r2s) IN
          /\ (f.type = TypeAccept /\ f.n > Len(src)) =>
                (spc' = "failed" /\ "InvalidProtocol" \in serr'.kinds /\ c2r' = c2r)
          /\ (f.type = TypeError /\ f.wf) =>
                (spc' = "failed" /\ serr' = Err({"Rejected"}, f.msg))
          /\ f.type \notin {TypeAccept, TypeError} =>
                (spc' = "failed" /\ "InvalidProtocol" \in serr'.kinds)]_vars

\* C27: after an ACCEPT with resume offset o, the DATA frames Send writes
\* carry the source bytes [o, size) in order, each between 1 and MaxChunkSize
\* bytes, so that when it writes DONE it has sent size - o bytes in DATA.
\* Stated of a Send with no chunk mutator and o <= size.
C27_DataFromOffset ==
    /\ [][(/\ spc = "streaming" /\ spc' = "streaming" /\ mutAt = -1
           /\ resumeOffset <= Len(src) /\ Len(c2r') > Len(c2r))
          => LET d == c2r'[Len(c2r')].data IN
             /\ c2r'[Len(c2r')].type = TypeData
             /\ Len(d) >= 1 /\ Len(d) <= MaxChunkSize
             /\ resumeOffset + sent + Len(d) <= Len(src)
             /\ d = Slice(src, resumeOffset + sent, resumeOffset + sent + Len(d))]_vars
    /\ [][(/\ spc = "streaming" /\ spc' = "awaitStatus" /\ mutAt = -1
           /\ resumeOffset <= Len(src))
          => sent = Len(src) - resumeOffset]_vars

\* C28: the digest Send puts in DONE is the digest of the whole source file,
\* bytes [0, size), whatever resume offset the ACCEPT carried and whether or
\* not the chunk mutator altered what was sent.
C28_DoneDigestOfWholeFile ==
    [][(spc = "streaming" /\ spc' = "awaitStatus") =>
          (~rclosed => /\ Len(c2r') = Len(c2r) + 1
                       /\ c2r'[Len(c2r')].type = TypeDone
                       /\ c2r'[Len(c2r')].wf
                       /\ c2r'[Len(c2r')].n = hashFile(src))]_vars

C28_Witness ==
    /\ spc = "awaitStatus"
    /\ rpc = "served"
    /\ resumeOffset > 0 /\ resumeOffset < Len(src)
    /\ Len(src) > MaxChunkSize
    /\ src[Len(src)] # src[1]
    /\ c2r # <<>>
    /\ c2r[Len(c2r)].type = TypeDone
    /\ c2r[Len(c2r)].n = hashFile(src)

\* C29: in AwaitStatus Send succeeds only on a clean end of stream; an ERROR
\* frame makes it fail with Rejected; any other frame, and any read error
\* that is not end of stream, makes it fail with Network.
C29_AwaitStatusOutcomes ==
    [][(spc = "awaitStatus" /\ spc' # spc /\ serr'.cause # "connection closed") =>
          /\ spc' = "done" => (r2s = <<>> /\ rclosed /\ ~rst)
          /\ (r2s # <<>> /\ Head(r2s).valid /\ Head(r2s).type = TypeError) =>
                (spc' = "failed" /\ serr'.kinds = {"Rejected"})
          /\ (r2s # <<>> /\ (~Head(r2s).valid \/ Head(r2s).type # TypeError)) =>
                (spc' = "failed" /\ "Network" \in serr'.kinds)
          /\ (r2s = <<>> /\ rclosed /\ rst) =>
                (spc' = "done" \/ (spc' = "failed" /\ "Network" \in serr'.kinds))]_vars

\* C30: whenever the handler returns because ReadFrame rejected a header
\* (magic, version, reserved field, length over the cap) or because the frame
\* it read has a type it does not expect, in any state from AwaitHello to
\* AwaitDone, it has written an ERROR frame to the peer, if the peer is still
\* connected, before it returns.
C30_ErrorFrameBeforeReturn ==
    [][(/\ rpc \in {"awaitHello", "awaitOffer", "streaming", "awaitDone"}
        /\ rpc' = "failed"
        /\ ~sclosed
        /\ \/ /\ rerr'.cause \in {"read hello frame", "read offer frame",
                                  "read data frame", "read done frame"}
              /\ "InvalidProtocol" \in rerr'.kinds
           \/ rerr'.cause \in {"expected HELLO", "expected OFFER",
                               "expected DATA frame", "expected DONE frame"})
       => (/\ Len(r2s') = Len(r2s) + 1
           /\ r2s'[Len(r2s')].type = TypeError)]_vars

C32_BadPayloadNotWritten ==
    /\ [](\A i \in 1..Len(wrote) :
            LET t == wrote[i].type
                n == Len(wrote[i].payload)
            IN  /\ (t = TypeHello => n = 0)
                /\ (t = TypeDone => n = 2 + HashSize)
                /\ (t = TypeData => n <= MaxChunkSize)
                /\ (t \notin {TypeHello, TypeDone, TypeData} => n <= MaxControlPayload))
    /\ [][(cpc' = "rejected") => (wire' = wire /\ wrote' = wrote)]_vars

\* =========================================================================
\* The payload codecs on a byte level (protocol.go 105-214,
\* protocol_test.go): a caller encodes a value; the payload, or what a peer
\* made of it, is decoded.
\* =========================================================================
notPay == <<sessVars, fsVars, connVars, sndVars, rcvVars, lockVars, codecVars,
            saveVars, filesVars>>

\* strings and sizes a caller may pass, in range or not
PayStrings == SeqsUpTo(MaxNameLen + 1)
PaySizes == {U64(0), U64(42), U64(16909060), <<258, 772, 1286, 1800>>}

PayValues ==
    {OfferPayload(n, z, sid) : n \in PayStrings, z \in PaySizes, sid \in PayStrings}
    \cup {AcceptPayload(z, sid) : z \in PaySizes, sid \in PayStrings}
    \cup {DonePayload(h) : h \in SeqsUpTo(HashSize + 1)}
    \cup {ErrorPayload(m) : m \in PayStrings}

\* p, EncodeOffer(...) and friends
PayEncode ==
    /\ ppc = "idle"
    /\ \E v \in PayValues :
        /\ pval' = v
        /\ pbytes' = Encode(v).bytes
        /\ ppc' = IF Encode(v).err = NoErr THEN "encoded" ELSE "refused"
    /\ UNCHANGED pres
    /\ UNCHANGED notPay

\* the payload a peer sends instead: cut short, with octets appended, or with
\* one octet changed
PayTamper ==
    /\ ppc = "encoded"
    /\ \/ \E n \in 0..(Len(pbytes) - 1) : pbytes' = SubSeq(pbytes, 1, n)
       \/ \E x \in SeqsUpTo(2) \ {<<>>} : pbytes' = pbytes \o x
       \/ \E i \in 1..Len(pbytes), b \in 0..3 :
            /\ pbytes[i] # b
            /\ pbytes' = [pbytes EXCEPT ![i] = b]
    /\ ppc' = "tampered"
    /\ UNCHANGED <<pval, pres>>
    /\ UNCHANGED notPay

\* DecodeOffer(p) and friends
PayDecode ==
    /\ ppc \in {"encoded", "tampered"}
    /\ pres' = Decode(pval.kind, pbytes)
    /\ ppc' = "decoded"
    /\ UNCHANGED <<pval, pbytes>>
    /\ UNCHANGED notPay

NextPay == PayEncode \/ PayTamper \/ PayDecode

SpecPay == Init /\ [][NextPay]_vars

\* the values in range: name, session id and message of 1..max octets, a
\* hash of HashSize octets, any size or offset
PayInRange(v) ==
    LET inRange(str, max) == Len(str) >= 1 /\ Len(str) <= max
    IN  CASE v.kind = "offer" -> inRange(v.name, MaxNameLen)
                                    /\ inRange(v.session, MaxSessionLen)
          [] v.kind = "accept" -> inRange(v.session, MaxSessionLen)
          [] v.kind = "done" -> Len(v.hash) = HashSize
          [] v.kind = "error" -> inRange(v.msg, MaxMessageLen)

\* the length the fields of payload p declare, by the layout of its kind;
\* -1 if p ends before a length field
PayDeclared(kind, p) ==
    LET u16(i) == p[i] * 256 + p[i + 1]
    IN  CASE kind = "offer" ->
                IF Len(p) < 2 THEN -1
                ELSE IF Len(p) < 2 + u16(1) + 10 THEN -1
                ELSE 2 + u16(1) + 10 + u16(2 + u16(1) + 9)
          [] kind = "accept" -> IF Len(p) < 10 THEN -1 ELSE 10 + u16(9)
          [] kind \in {"done", "error"} -> IF Len(p) < 2 THEN -1 ELSE 2 + u16(1)

\* C33: decoding the payload an encoder built from a value in range (name,
\* session id and message of 1..max octets, hash of HashSize octets, any
\* size or offset) returns that value; and a decoder rejects with
\* InvalidProtocol, returning no value, every payload that is too short to
\* hold its length fields, whose length fields do not add up to the length of
\* the payload, or that has octets left after the declared fields.
C33_PayloadRoundTrip ==
    /\ [][(ppc = "idle" /\ PayInRange(pval')) => ppc' = "encoded"]_vars
    /\ [][(ppc = "encoded" /\ ppc' = "decoded" /\ PayInRange(pval)) =>
            (pres'.err = NoErr /\ pres'.value = pval)]_vars
    /\ [][(ppc' = "decoded" /\ PayDeclared(pval.kind, pbytes) # Len(pbytes)) =>
            (/\ pres'.err.kinds = {"InvalidProtocol"}
             /\ pres'.value = [kind |-> "none"])]_vars

\* an ACCEPT payload with two octets appended was refused
C33_Witness ==
    /\ ppc = "decoded"
    /\ pval.kind = "accept" /\ Len(pval.session) = 1
    /\ Len(pbytes) = 8 + 2 + 1 + 2
    /\ pres = [err |-> [kinds |-> {"InvalidProtocol"},
                        cause |-> "invalid accept session"],
               value |-> [kind |-> "none"]]

\* =========================================================================
\* Receiver runs over one output directory (files.go, receiver.go 120-271):
\* every run resolves the paths of the same offered name, receives into the
\* partial and finalizes; a run may fail, and the process may die anywhere.
\* =========================================================================
notFiles == <<sessVars, fsVars, connVars, sndVars, rcvVars, lockVars, codecVars,
              saveVars, payVars>>

\* contents a sender may offer
Contents == {<<0>>, <<1>>}

FilesRunning == {"resolved", "received", "renamed", "metaRemoved", "finalized",
                 "finalizeFailed"}

\* a run starts: resume.ResolvePaths(opts.OutDir, offer.Name, opts.Overwrite)
FilesResolve ==
    /\ fpc \notin FilesRunning
    /\ \E ow \in BOOLEAN, c \in Contents :
        /\ overwrite' = ow
        /\ incoming' = c
        /\ paths' = ResolvePaths(dir, ow)
        /\ fpc' = IF ResolvePaths(dir, ow) = NoPaths THEN "failed" ELSE "resolved"
    /\ UNCHANGED dir
    /\ UNCHANGED notFiles

\* the handler from prepareResumeState to the digest comparison: the partial
\* holds the bytes that were verified and the meta is saved
FilesReceive ==
    /\ fpc = "resolved"
    /\ dir' = [dir EXCEPT ![paths].partial = File(incoming), ![paths].meta = TRUE]
    /\ fpc' = "received"
    /\ UNCHANGED <<paths, overwrite, incoming>>
    /\ UNCHANGED notFiles

\* Finalize: os.Rename(paths.Partial, paths.Final)
FinalizeRename ==
    /\ fpc = "received"
    /\ \E renameOk \in BOOLEAN :
        IF renameOk
        THEN dir' = [dir EXCEPT ![paths] = Renamed(@)] /\ fpc' = "renamed"
        ELSE dir' = dir /\ fpc' = "finalizeFailed"
    /\ UNCHANGED <<paths, overwrite, incoming>>
    /\ UNCHANGED notFiles

\* Finalize: _ = os.Remove(paths.Meta)
FinalizeRemoveMeta ==
    /\ fpc = "renamed"
    /\ dir' = [dir EXCEPT ![paths] = MetaRemoved(@)]
    /\ fpc' = "metaRemoved"
    /\ UNCHANGED <<paths, overwrite, incoming>>
    /\ UNCHANGED notFiles

\* Finalize: _ = os.Remove(paths.Lock); return nil
FinalizeRemoveLock ==
    /\ fpc = "metaRemoved"
    /\ dir' = [dir EXCEPT ![paths] = LockRemoved(@)]
    /\ fpc' = "finalized"
    /\ UNCHANGED <<paths, overwrite, incoming>>
    /\ UNCHANGED notFiles

\* the handler returns: after Finalize with cleanup = false, else through the
\* deferred function, which removes the partial and the meta unless
\* KeepPartial or preservePartial is set
FilesReturn ==
    /\ fpc \in {"received", "finalized", "finalizeFailed"}
    /\ IF fpc = "finalized"
       THEN dir' = dir /\ fpc' = "done"
       ELSE /\ fpc' = "failed"
            /\ \E keep \in BOOLEAN :
                dir' = IF keep THEN dir
                       ELSE [dir EXCEPT ![paths].partial = NoFile,
                                        ![paths].meta = FALSE]
    /\ UNCHANGED <<paths, overwrite, incoming>>
    /\ UNCHANGED notFiles

\* the receiver process dies
FilesCrash ==
    /\ fpc \in FilesRunning
    /\ fpc' = "crashed"
    /\ UNCHANGED <<dir, paths, overwrite, incoming>>
    /\ UNCHANGED notFiles

\* between two runs another process creates a lock file for the name
\* (resume.AcquireLock, lock.go 23)
FilesForeignLock ==
    /\ fpc \notin FilesRunning
    /\ \E i \in Slots :
        /\ ~dir[i].lock
        /\ dir' = [dir EXCEPT ![i].lock = TRUE]
    /\ UNCHANGED <<fpc, paths, overwrite, incoming>>
    /\ UNCHANGED notFiles

NextFiles ==
    \/ FilesResolve \/ FilesReceive
    \/ FinalizeRename \/ FinalizeRemoveMeta \/ FinalizeRemoveLock
    \/ FilesReturn \/ FilesCrash \/ FilesForeignLock

SpecFiles == Init /\ [][NextFiles]_vars

\* C34: when Finalize has returned nil, the final path holds the file the
\* partial path held when Finalize was called, and no file is at the partial,
\* meta and lock paths; when its rename fails it returns the error having
\* changed nothing: the partial, the meta and the lock are as they were.
C34_FinalizeMovesAndCleans ==
    /\ [](fpc = "finalized" =>
            /\ dir[paths].final = [exists |-> TRUE, data |-> incoming]
            /\ ~dir[paths].partial.exists
            /\ ~dir[paths].meta
            /\ ~dir[paths].lock)
    /\ [][(fpc = "received" /\ fpc' = "renamed") =>
            dir'[paths].final = dir[paths].partial]_vars
    /\ [][(fpc = "received" /\ fpc' = "finalizeFailed") => dir' = dir]_vars

\* Finalize returned nil
C34_Witness ==
    /\ fpc = "finalized"
    /\ dir[paths].final = [exists |-> TRUE, data |-> incoming]
    /\ ~dir[paths].partial.exists /\ ~dir[paths].meta /\ ~dir[paths].lock

\* C37: in a run with overwrite = false, no step replaces, alters or removes
\* a final file that is in the directory, whatever the runs and crashes
\* before left there.
C37_NoOverwriteKeepsFinal ==
    [][\A i \in Slots :
        (dir[i].final.exists /\ ~overwrite /\ fpc \in FilesRunning) =>
            dir'[i].final = dir[i].final]_vars

\* =========================================================================
\* A connection that finds leftovers (receiver.go 125-271): whatever partial
\* and meta an earlier run, a crash or a damaged disk left at the target, the
\* handler prepares the resume state and a hand-written client sends the
\* rest of the transfer.
\* =========================================================================
\* the handler has decided to accept an offer; the partial at the target
\* holds any bytes at all
InitResume ==
    /\ session = 1 /\ src = <<>> /\ mutAt = -1 /\ peer = "raw"
    /\ opts = [NoOptions EXCEPT !.accept = "auto"]
    /\ final = NoFile
    /\ partial \in {NoFile} \cup {File(f) : f \in Files}
    /\ meta \in LeftMetas
    /\ lock = 0
    /\ c2r = <<>> /\ r2s = <<>> /\ sclosed = FALSE /\ rclosed = FALSE /\ rst = FALSE
    /\ spc = "raw" /\ sent = 0 /\ shash = HashNew /\ serr = NoErr
    /\ rpc = "accepted" /\ offer \in 0..MaxSize /\ resumeOffset = 0 /\ written = 0
    /\ lastMetaSync = 0 /\ rhash = HashNew /\ expected = 0 /\ rerr = NoErr
    /\ lpc = [r \in Receivers |-> "idle"]
    /\ breakLock = [r \in Receivers |-> FALSE]
    /\ cpc = "idle" /\ wire = <<>> /\ wrote = <<>> /\ rres = NoRead
    /\ mpc = "idle" /\ mdisk = Path(NoTemp, NoTemp) /\ mtmp = NoTemp /\ mnew = NoMeta
    /\ ppc = "idle" /\ pval = NoValue /\ pbytes = <<>> /\ pres = NoDecode
    /\ fpc = "idle" /\ dir = FreshDir /\ paths = NoPaths /\ overwrite = FALSE
    /\ incoming = <<>>

\* the client writes one frame and the handler reads it
ResumeFeed ==
    /\ spc = "raw" /\ ~sclosed /\ c2r = <<>>
    /\ \E f \in RawFrames : RecvStreamOn(<<f>>) \/ RecvDoneOn(<<f>>)

NextResume ==
    \/ RecvPrepare \/ RecvAccept \/ RecvOpen
    \/ ResumeFeed \/ RawClose \/ RecvStream \/ RecvEndStream \/ RecvDone
    \/ RecvVerify

SpecResume == InitResume /\ [][NextResume]_vars

\* C35: in the step that finalizes, the digest of the whole content of the
\* partial (the bytes that were on disk before the connection included)
\* equals the digest DONE carried, and that content becomes the final file:
\* a final file never holds bytes whose digest the sender did not send,
\* whatever the partial held when the connection resumed it.
C35_FinalizedDigestIsWholeFile ==
    /\ [][(rpc = "verify" /\ rpc' = "done") =>
            /\ hashFile(partial.data) = expected
            /\ final' = [exists |-> TRUE, data |-> partial.data]]_vars
    /\ [][final' # final =>
            (rpc = "verify" /\ final'.exists /\ hashFile(final'.data) = expected)]_vars

\* a resumed transfer was finalized over a prefix that is not all zeros
C35_Witness ==
    /\ rpc = "done" /\ resumeOffset >= 1
    /\ final.exists /\ Len(final.data) > resumeOffset
    /\ final.data[1] = 1
    /\ rerr = NoErr /\ ~partial.exists

\* C36: when a Send has returned success, the handler of that connection
\* has verified the digest and renamed the partial to the final file (it
\* returned success too); a handler that failed in its Verify step (digest
\* mismatch, fsync failure, rename failure) leaves the Send with a failure.
C36_SendSuccessMeansFinalized ==
    /\ (peer = "send" /\ spc = "done" /\ rpc \in {"done", "failed"}) =>
            (rpc = "done" /\ final = [exists |-> TRUE, data |-> src])
    /\ (/\ peer = "send" /\ rpc = "failed" /\ spc \in {"done", "failed"}
        /\ rerr.cause \in {"integrity check failed", "sync output file",
                           "finalize partial file"})
       => spc = "failed"

\* C38: a Release removes no lock file but the caller's own: when receiver r
\* calls Release (for the second time, or after its lock was broken) while
\* the file at the lock path is one that another receiver created, that
\* file stays.
C38_ReleaseRemovesOwnLockOnly ==
    [][\A r \in Receivers :
        (/\ lpc[r] \in {"held", "released"}
         /\ lpc' = [lpc EXCEPT ![r] = "released"]
         /\ lock \notin {0, r})
        => lock' = lock]_vars

\* =========================================================================
\* The streaming loop against a client whose frames wait in the connection
\* (receiver.go 176-213): the client writes a frame, the handler reads it in
\* a later step.
\* =========================================================================
\* the hand-written client writes one frame
RawWrite ==
    /\ spc = "raw" /\ ~sclosed /\ ~rclosed /\ c2r = <<>>
    /\ \E f \in RawFrames : c2r' = <<f>>
    /\ UNCHANGED <<sessVars, fsVars, r2s, sclosed, rclosed, rst, sndVars, rcvVars,
                   apiVars>>

NextStream ==
    \/ RecvPrepare \/ RecvAccept \/ RecvOpen
    \/ RawWrite \/ RawClose \/ RecvStream \/ RecvEndStream \/ RecvDone
    \/ RecvVerify

SpecStream == InitPrepare /\ [][NextStream]_vars

\* C39: every DATA frame the streaming loop accepts (takes off the
\* connection and goes on to the next iteration) makes written strictly
\* larger.
C39_DataIncreasesWritten ==
    [][(/\ rpc = "streaming" /\ rpc' = "streaming" /\ written < offer
        /\ c2r # <<>> /\ c2r' = Tail(c2r))
       => written' > written]_vars

\* =========================================================================
\* Retries (receiver.go 154-162, 223-258, 312-323): a first Send whose chunk
\* mutator alters a byte, then Sends of the same source without mutator, as
\* long as no final file exists.  The receiver runs with AutoAccept, Resume
\* and KeepPartial; no disk operation fails and no process is interrupted.
\* =========================================================================
InitRetry ==
    /\ session = 1
    /\ src \in {f \in Sources : Len(f) >= 1}
    /\ mutAt \in {0, Len(src) - 1}
    /\ peer = "send"
    /\ opts = NoOptions
    /\ final = NoFile /\ partial = NoFile /\ meta = NoMeta /\ lock = 0
    /\ c2r = <<>> /\ r2s = <<>> /\ sclosed = FALSE /\ rclosed = FALSE /\ rst = FALSE
    /\ spc = "start" /\ sent = 0 /\ shash = HashNew /\ serr = NoErr
    /\ rpc = "awaitHello" /\ offer = 0 /\ resumeOffset = 0 /\ written = 0
    /\ lastMetaSync = 0 /\ rhash = HashNew /\ expected = 0 /\ rerr = NoErr
    /\ lpc = [r \in Receivers |-> "idle"]
    /\ breakLock = [r \in Receivers |-> FALSE]
    /\ cpc = "idle" /\ wire = <<>> /\ wrote = <<>> /\ rres = NoRead
    /\ mpc = "idle" /\ mdisk = Path(NoTemp, NoTemp) /\ mtmp = NoTemp /\ mnew = NoMeta
    /\ ppc = "idle" /\ pval = NoValue /\ pbytes = <<>> /\ pres = NoDecode
    /\ fpc = "idle" /\ dir = FreshDir /\ paths = NoPaths /\ overwrite = FALSE
    /\ incoming = <<>>

\* the operator runs the receiver and the same send again
RetryStart ==
    /\ SenderOver /\ ReceiverOver
    /\ ~final.exists
    /\ session' = 2
    /\ mutAt' = -1
    /\ opts' = NoOptions
    /\ c2r' = <<>> /\ r2s' = <<>> /\ sclosed' = FALSE /\ rclosed' = FALSE
    /\ rst' = FALSE
    /\ spc' = "start" /\ sent' = 0 /\ shash' = HashNew /\ serr' = NoErr
    /\ rpc' = "awaitHello" /\ offer' = 0 /\ resumeOffset' = 0 /\ written' = 0
    /\ lastMetaSync' = 0 /\ rhash' = HashNew /\ expected' = 0 /\ rerr' = NoErr
    /\ UNCHANGED <<src, peer, fsVars, apiVars>>

\* the options of the runs, and a disk that works
Steady ==
    /\ opts'.accept \in {"unset", "auto"}
    /\ opts'.resume \in {"unset", "yes"}
    /\ opts'.keepPartial \in {"unset", "yes"}
    /\ rpc' = "failed" =>
            /\ "IO" \notin rerr'.kinds
            /\ rerr'.cause # "prepare resume state"

NextRetry ==
    \/ RetryStart
    \/ (SendHandshake /\ Steady) \/ (SendAwaitAccept /\ Steady)
    \/ (SendData /\ Steady) \/ (SendDone /\ Steady) \/ (SendAwaitStatus /\ Steady)
    \/ (RecvHello /\ Steady) \/ (RecvOffer /\ Steady) \/ (RecvDecide /\ Steady)
    \/ (RecvPrepare /\ Steady) \/ (RecvAccept /\ Steady) \/ (RecvOpen /\ Steady)
    \/ (RecvStream /\ Steady) \/ (RecvEndStream /\ Steady)
    \/ (RecvDone /\ Steady) \/ (RecvVerify /\ Steady)

\* both programs keep running, and the operator keeps retrying
SpecRetry == InitRetry /\ [][NextRetry]_vars /\ WF_vars(NextRetry)

\* C40: after a transfer failed its integrity check, the retries lead to a
\* transfer that completes on both sides with the final file equal to the
\* source.
C40_RetryEventuallyCompletes ==
    (rpc = "failed" /\ rerr.cause = "integrity check failed")
        ~> (rpc = "done" /\ spc = "done" /\ final = [exists |-> TRUE, data |-> src])

=============================================================================
